---- MODULE Spec2Model ----
(***************************************************************************)
(* Model of the dueling game's domain logic (game/models.py) and of the    *)
(* views that drive it (game/views.py).                                    *)
(*                                                                         *)
(* The stored state is the database: the Character rows, the inventory     *)
(* many-to-many table and the Battle rows, plus each player's session.     *)
(* field_max is the largest value the database backend of the deployment   *)
(* accepts in a PositiveIntegerField; it never changes.                    *)
(* Every request is handled one at a time: the view loads the character,   *)
(* calls the model method, and the method's transaction.atomic() block     *)
(* either commits all of its writes or none.                               *)
(***************************************************************************)
EXTENDS Integers, Sequences, FiniteSets, TLC

VARIABLES characters, inventory, battles, session, field_max, last

vars == <<characters, inventory, battles, session, field_max, last>>

----------------------------------------------------------------------------
(* Bounds of the model *)

\* Largest value of a PositiveIntegerField (scaled down), in the battle
\* scenario and in the shop scenario
MaxPosInt == 45

ShopMaxPosInt == 12

\* Largest number of stored Battle rows.
MaxBattles == 2

\* Largest number of battles the shopper fights between its purchases, and
\* of battles stored in the scenario of the stale list
MaxDuels == 1

\* A direct save or a direct resolution of the direct-call scenario stores
\* a battle only while fewer battles than this are stored
MaxSaves == 1

\* Largest level reached by gaining experience, and the largest value of a
\* PositiveIntegerField in the experience scenario
ExpMaxLevel == 12

ExpMaxPosInt == 6000

\* Largest value of a PositiveIntegerField in the scenario of the stale
\* list
FreshMaxPosInt == 27100

\* Largest primary key of a character
MaxCharacters == 4

----------------------------------------------------------------------------
(* Reference data: players, races, professions, items *)

\* None: a null reference (primary keys start at 1)
NULL == 0

NoError == ""

Players == {"p1", "p2"}

\* Player rows: max_characters
Player(p) == [max_characters |-> IF p = "p1" THEN 3 ELSE 1]

Professions == {"warrior", "mage"}

Races == {"human", "elf"}

Slots == {"weapon", "armor", "accessory"}

\* Profession rows: damage_base, protection_base, health_base
Profession(p) ==
    IF p = "warrior"
    THEN [damage_base |-> 3, protection_base |-> 1, health_base |-> 0]
    ELSE [damage_base |-> 1, protection_base |-> 0, health_base |-> 2]

\* Race rows: the float modifiers are held in tenths (15 is 1.5)
Race(r) ==
    IF r = "human"
    THEN [damage_modifier |-> 10, protection_modifier |-> 10,
          health_modifier |-> 10,
          allowed_professions |-> {"warrior", "mage"}]
    ELSE [damage_modifier |-> 15, protection_modifier |-> 5,
          health_modifier |-> 10,
          allowed_professions |-> {"mage"}]

\* Item primary keys; Character.equipped_weapon defaults to the item with pk 1
Items == 1 .. 4

DefaultWeapon == 1

Item(i) ==
    CASE i = 1 -> [price |-> 4, level_required |-> 1, slot |-> "weapon",
                   allowed_professions |-> {"warrior", "mage"},
                   bonus_damage |-> 2, bonus_protection |-> 0,
                   bonus_health |-> 0]
      [] i = 2 -> [price |-> 3, level_required |-> 1, slot |-> "weapon",
                   allowed_professions |-> {"warrior"},
                   bonus_damage |-> 5, bonus_protection |-> 0,
                   bonus_health |-> 1]
      [] i = 3 -> [price |-> 5, level_required |-> 2, slot |-> "armor",
                   allowed_professions |-> {"warrior", "mage"},
                   bonus_damage |-> 0, bonus_protection |-> 3,
                   bonus_health |-> 0]
      [] OTHER -> [price |-> 1, level_required |-> 1, slot |-> "accessory",
                   allowed_professions |-> {"mage"},
                   bonus_damage |-> 0, bonus_protection |-> 1,
                   bonus_health |-> 7]

\* the half of the price rounded up
sell_price_ceil(i) == (Item(i).price + 1) \div 2

\* Item.sell_price
sell_price(i) == Item(i).price \div 2

----------------------------------------------------------------------------
(* The database as a value, and the result of a model method *)

Database(cs, inv, bs) == [characters |-> cs, inventory |-> inv, battles |-> bs]

Result(db, err) == [db |-> db, error |-> err]

\* with transaction.atomic(): an exception rolls every write of the block back
atomic_none(before, r) == r

atomic(before, r) == IF r.error # NoError THEN Result(before, r.error) ELSE r

\* self.inventory.add(item) / self.inventory.remove(item): written at once
inventory_add(db, id, item) ==
    [db EXCEPT !.inventory[id] = @ \cup {item}]

inventory_remove(db, id, item) ==
    [db EXCEPT !.inventory[id] = @ \ {item}]

----------------------------------------------------------------------------
(* Character *)

\* round(): Python rounds half to even; n / d with d > 0 and n >= 0
RoundHalfEven(n, d) ==
    LET q == n \div d
        r == n % d
    IN  IF 2 * r < d THEN q
        ELSE IF 2 * r > d THEN q + 1
        ELSE IF q % 2 = 0 THEN q ELSE q + 1

ItemBonus(obj, field) ==
    LET bonus(s) == IF obj.equipped[s] = NULL THEN 0
                    ELSE Item(obj.equipped[s])[field]
    IN  bonus("weapon") + bonus("armor") + bonus("accessory")

\* Character.recalculate_stats; level * 0.5 and level * 0.2 are kept exact in
\* tenths, the race modifier in tenths, so each product is in hundredths
recalculate_stats(obj) ==
    LET damage == 10 * Profession(obj.profession).damage_base
                    + obj.level * 5 + 10 * ItemBonus(obj, "bonus_damage")
        protection == 10 * Profession(obj.profession).protection_base
                    + obj.level * 2 + 10 * ItemBonus(obj, "bonus_protection")
        health == 10 * Profession(obj.profession).health_base
                    + obj.level * 50 + 10 * ItemBonus(obj, "bonus_health")
    IN  [obj EXCEPT
            !.damage = RoundHalfEven(damage * Race(obj.race).damage_modifier, 100),
            !.protection =
                RoundHalfEven(protection * Race(obj.race).protection_modifier, 100),
            !.health = RoundHalfEven(health * Race(obj.race).health_modifier, 100)]

PositiveIntegerField(v) == v \in 0 .. field_max

\* Character.full_clean for a stored character: the field validators
\* (Character.clean only checks a character that is being added)
Character_full_clean(obj) ==
    IF  /\ PositiveIntegerField(obj.level)
        /\ PositiveIntegerField(obj.current_exp)
        /\ PositiveIntegerField(obj.gold)
        /\ PositiveIntegerField(obj.damage)
        /\ PositiveIntegerField(obj.health)
        /\ PositiveIntegerField(obj.protection)
        /\ \A s \in Slots :
              obj.equipped[s] # NULL => Item(obj.equipped[s]).slot = s
    THEN NoError
    ELSE "Invalid field value."

\* a save that writes the stats the object was loaded with
Character_save_stale(id, obj, db) ==
    IF Character_full_clean(obj) # NoError
    THEN Result(db, Character_full_clean(obj))
    ELSE Result([db EXCEPT !.characters[id] = obj], NoError)

\* Character.save: full_clean, recalculate_stats, then the row is written
Character_save(id, obj, db) ==
    IF Character_full_clean(obj) # NoError
    THEN Result(db, Character_full_clean(obj))
    ELSE Result([db EXCEPT !.characters[id] = recalculate_stats(obj)], NoError)

\* A form field that was left empty, a reference that is not set
Blank == ""

\* The letters a name is written with (a sample of a-z and A-Z)
Letters == {"a", "b", "c", "d", "e", "f"}

\* name_validator: the regular expression ^[a-zA-Z]{2,12}$
name_validator(name) ==
    /\ Len(name) >= 2 /\ Len(name) <= 12
    /\ \A k \in 1 .. Len(name) : name[k] \in Letters

\* owner.characters.count()
characters_count(owner, db) ==
    Cardinality({c \in DOMAIN db.characters :
                    db.characters[c].owner = owner})

\* clean without the check of the number of characters
Character_clean_no_quota(obj, db) ==
    IF obj.profession # Blank /\ obj.race = Blank
    THEN "Character has no race."
    ELSE IF /\ obj.profession # Blank
            /\ obj.profession \notin Race(obj.race).allowed_professions
    THEN "This profession is not allowed for this race."
    ELSE NoError

\* clean without the check of the profession
Character_clean_any_profession(obj, db) ==
    IF /\ obj.owner # Blank
       /\ Player(obj.owner).max_characters
            <= characters_count(obj.owner, db)
    THEN "You cannot have more than max_characters characters."
    ELSE NoError

\* Character.clean of a character that is being added; reading self.race
\* of an object without a race raises RelatedObjectDoesNotExist
Character_clean(obj, db) ==
    IF obj.profession # Blank /\ obj.race = Blank
    THEN "Character has no race."
    ELSE IF /\ obj.profession # Blank
            /\ obj.profession \notin Race(obj.race).allowed_professions
    THEN "This profession is not allowed for this race."
    ELSE IF /\ obj.owner # Blank
            /\ Player(obj.owner).max_characters
                 <= characters_count(obj.owner, db)
    THEN "You cannot have more than max_characters characters."
    ELSE NoError

\* Character.full_clean of a character that is being added: the field
\* validators of the fields the caller sets, clean, and the unique name
Character_full_clean_adding(obj, db) ==
    IF Character_clean(obj, db) = "Character has no race."
    THEN Character_clean(obj, db)
    ELSE IF ~ name_validator(obj.name)
    THEN "Name must contain only 2-12 latin letters."
    ELSE IF obj.race = Blank \/ obj.profession = Blank \/ obj.owner = Blank
    THEN "This field is required."
    ELSE IF Character_clean(obj, db) # NoError
    THEN Character_clean(obj, db)
    ELSE IF \E c \in DOMAIN db.characters :
               db.characters[c].name = obj.name
    THEN "Character with this Name already exists."
    ELSE NoError

\* The primary key of a new row: above every key in use
next_pk(db) ==
    IF DOMAIN db.characters = {} THEN 1
    ELSE 1 + CHOOSE c \in DOMAIN db.characters :
                \A o \in DOMAIN db.characters : o <= c

\* A function with one more argument
Extended(f, key, value) ==
    [k \in DOMAIN f \cup {key} |-> IF k = key THEN value ELSE f[k]]

\* A function without one of its arguments
Without(f, key) == [k \in DOMAIN f \ {key} |-> f[k]]

\* The row Character.save inserts for a new character: level 1, no
\* experience, no gold, the default weapon, the stats of recalculate_stats
NewCharacterRow(obj) ==
    LET row == recalculate_stats(
                 [owner |-> obj.owner, race |-> obj.race,
                  profession |-> obj.profession,
                  level |-> 1, current_exp |-> 0, gold |-> 0,
                  damage |-> 1, health |-> 100, protection |-> 1,
                  equipped |-> [s \in Slots |->
                                  IF s = "weapon" THEN DefaultWeapon
                                  ELSE NULL]])
    IN  Extended(row, "name", obj.name)

\* Character.save of a new character: full_clean, recalculate_stats, insert
Character_save_adding(obj, db) ==
    IF Character_full_clean_adding(obj, db) # NoError
    THEN Result(db, Character_full_clean_adding(obj, db))
    ELSE Result([db EXCEPT
                    !.characters =
                        Extended(@, next_pk(db), NewCharacterRow(obj)),
                    !.inventory = Extended(@, next_pk(db), {})],
                NoError)

\* a form that takes the owner from the submitted data as well
construct_instance_owner(instance, data) ==
    [instance EXCEPT !.name = data.name, !.race = data.race,
                     !.profession = data.profession,
                     !.owner = IF data.owner = Blank THEN @ ELSE data.owner]

\* CharacterCreateForm: the fields name, race and profession of the
\* submitted data are written to the instance, the other data is dropped
construct_instance(instance, data) ==
    [instance EXCEPT !.name = data.name, !.race = data.race,
                     !.profession = data.profession]

\* a deletion that takes the battles of the character with it
Character_delete_cascade(id, db) ==
    LET Refers(row) == id \in {row.attacker, row.defender, row.winner,
                               row.loser}
    IN  [characters |-> Without(db.characters, id),
         inventory |-> Without(db.inventory, id),
         battles |-> SelectSeq(db.battles, LAMBDA row : ~ Refers(row))]

\* Character.delete: the rows of the inventory go with the character, the
\* references of the battles are set to null (on_delete=SET_NULL)
Character_delete(id, db) ==
    LET SetNull(ref) == IF ref = id THEN NULL ELSE ref
    IN  [characters |-> Without(db.characters, id),
         inventory |-> Without(db.inventory, id),
         battles |-> [k \in 1 .. Len(db.battles) |->
                        [db.battles[k] EXCEPT
                            !.attacker = SetNull(@),
                            !.defender = SetNull(@),
                            !.winner = SetNull(@),
                            !.loser = SetNull(@)]]]

\* Character.exp_for_level
exp_for_level(level) == level * level * 40

\* a single level gained at most
level_up_once(obj) ==
    IF obj.current_exp >= exp_for_level(obj.level)
    THEN [obj EXCEPT !.current_exp = @ - exp_for_level(obj.level),
                     !.level = @ + 1]
    ELSE obj

\* Character.add_exp
RECURSIVE level_up(_)
level_up(obj) ==
    IF obj.current_exp >= exp_for_level(obj.level)
    THEN level_up([obj EXCEPT !.current_exp = @ - exp_for_level(obj.level),
                              !.level = @ + 1])
    ELSE obj

\* experience added to the field directly, without add_exp's loop
add_exp_direct(obj, exp) == [obj EXCEPT !.current_exp = @ + exp]

add_exp(obj, exp) == level_up([obj EXCEPT !.current_exp = @ + exp])

\* equip_item without the level check
equip_item_any_level(id, obj, item, db) ==
    IF item \notin db.inventory[id]
    THEN Result(db, "You don't own this item.")
    ELSE IF obj.profession \notin Item(item).allowed_professions
    THEN Result(db, "This item doesn't match your profession.")
    ELSE
      LET slot == Item(item).slot
          equipped_item == obj.equipped[slot]
          db1 == IF equipped_item # NULL
                 THEN inventory_add(db, id, equipped_item) ELSE db
          db2 == inventory_remove(db1, id, item)
          obj2 == [obj EXCEPT !.equipped[slot] = item]
      IN  atomic(db, Character_save(id, obj2, db2))

\* equip_item that drops the item it replaces
equip_item_drop_old(id, obj, item, db) ==
    IF item \notin db.inventory[id]
    THEN Result(db, "You don't own this item.")
    ELSE IF obj.profession \notin Item(item).allowed_professions
    THEN Result(db, "This item doesn't match your profession.")
    ELSE IF Item(item).level_required > obj.level
    THEN Result(db, "Your level is not high enough.")
    ELSE
      LET slot == Item(item).slot
          db2 == inventory_remove(db, id, item)
          obj2 == [obj EXCEPT !.equipped[slot] = item]
      IN  atomic(db, Character_save(id, obj2, db2))

\* equip_item that puts every item into the weapon slot and writes the
\* row without save
equip_item_as_weapon(id, obj, item, db) ==
    IF item \notin db.inventory[id]
    THEN Result(db, "You don't own this item.")
    ELSE IF obj.profession \notin Item(item).allowed_professions
    THEN Result(db, "This item doesn't match your profession.")
    ELSE IF Item(item).level_required > obj.level
    THEN Result(db, "Your level is not high enough.")
    ELSE
      LET equipped_item == obj.equipped["weapon"]
          db1 == IF equipped_item # NULL
                 THEN inventory_add(db, id, equipped_item) ELSE db
          db2 == inventory_remove(db1, id, item)
          obj2 == [obj EXCEPT !.equipped["weapon"] = item]
      IN  Result([db2 EXCEPT !.characters[id] = obj2], NoError)

\* Character.equip_item
equip_item(id, obj, item, db) ==
    IF item \notin db.inventory[id]
    THEN Result(db, "You don't own this item.")
    ELSE IF obj.profession \notin Item(item).allowed_professions
    THEN Result(db, "This item doesn't match your profession.")
    ELSE IF Item(item).level_required > obj.level
    THEN Result(db, "Your level is not high enough.")
    ELSE
      LET slot == Item(item).slot
          equipped_item == obj.equipped[slot]
          db1 == IF equipped_item # NULL
                 THEN inventory_add(db, id, equipped_item) ELSE db
          db2 == inventory_remove(db1, id, item)
          obj2 == [obj EXCEPT !.equipped[slot] = item]
      IN  atomic(db, Character_save(id, obj2, db2))

\* unequip_item without the check of the slot
unequip_item_any(id, obj, item, db) ==
    LET db1 == inventory_add(db, id, item)
        obj2 == [obj EXCEPT !.equipped[Item(item).slot] = NULL]
    IN  atomic(db, Character_save(id, obj2, db1))

\* unequip_item that empties the slot and loses the item
unequip_item_lose(id, obj, item, db) ==
    IF item # obj.equipped[Item(item).slot]
    THEN Result(db, "Item is not equipped.")
    ELSE
      LET obj2 == [obj EXCEPT !.equipped[Item(item).slot] = NULL]
      IN  atomic(db, Character_save(id, obj2, db))

\* Character.unequip_item
unequip_item(id, obj, item, db) ==
    IF item # obj.equipped[Item(item).slot]
    THEN Result(db, "Item is not equipped.")
    ELSE
      LET db1 == inventory_add(db, id, item)
          obj2 == [obj EXCEPT !.equipped[Item(item).slot] = NULL]
      IN  atomic(db, Character_save(id, obj2, db1))

\* buy_item that only looks for the item in the inventory
buy_item_equipped_too(id, obj, item, db) ==
    IF item \in db.inventory[id]
    THEN Result(db, "You already have that item.")
    ELSE IF Item(item).price > obj.gold
    THEN Result(db, "You don't have enough gold.")
    ELSE
      LET db1 == inventory_add(db, id, item)
          obj2 == [obj EXCEPT !.gold = @ - Item(item).price]
      IN  atomic(db, Character_save(id, obj2, db1))

\* buy_item that charges the sell price
buy_item_half_price(id, obj, item, db) ==
    IF item = obj.equipped[Item(item).slot] \/ item \in db.inventory[id]
    THEN Result(db, "You already have that item.")
    ELSE IF Item(item).price > obj.gold
    THEN Result(db, "You don't have enough gold.")
    ELSE
      LET db1 == inventory_add(db, id, item)
          obj2 == [obj EXCEPT !.gold = @ - sell_price(item)]
      IN  atomic(db, Character_save(id, obj2, db1))

\* buy_item that never looks at the gold and writes the row without save
buy_item_on_credit(id, obj, item, db) ==
    IF item = obj.equipped[Item(item).slot] \/ item \in db.inventory[id]
    THEN Result(db, "You already have that item.")
    ELSE
      LET db1 == inventory_add(db, id, item)
          obj2 == [obj EXCEPT !.gold = @ - Item(item).price]
      IN  Result([db1 EXCEPT !.characters[id] = obj2], NoError)

\* buy_item that puts the item into its slot when the slot is empty
buy_item_and_wear(id, obj, item, db) ==
    IF item = obj.equipped[Item(item).slot] \/ item \in db.inventory[id]
    THEN Result(db, "You already have that item.")
    ELSE IF Item(item).price > obj.gold
    THEN Result(db, "You don't have enough gold.")
    ELSE
      LET slot == Item(item).slot
          db1 == IF obj.equipped[slot] = NULL THEN db
                 ELSE inventory_add(db, id, item)
          obj2 == [obj EXCEPT !.gold = @ - Item(item).price,
                              !.equipped[slot] =
                                  IF @ = NULL THEN item ELSE @]
      IN  atomic(db, Character_save(id, obj2, db1))

\* Character.buy_item
buy_item(id, obj, item, db) ==
    IF item = obj.equipped[Item(item).slot] \/ item \in db.inventory[id]
    THEN Result(db, "You already have that item.")
    ELSE IF Item(item).price > obj.gold
    THEN Result(db, "You don't have enough gold.")
    ELSE
      LET db1 == inventory_add(db, id, item)
          obj2 == [obj EXCEPT !.gold = @ - Item(item).price]
      IN  atomic(db, Character_save(id, obj2, db1))

\* sell_item that pays and leaves the item in the inventory
sell_item_keep(id, obj, item, db) ==
    IF item \notin db.inventory[id]
    THEN Result(db, "You don't have that item in your inventory.")
    ELSE
      LET obj2 == [obj EXCEPT !.gold = @ + sell_price(item)]
      IN  atomic(db, Character_save(id, obj2, db))

\* sell_item that pays the whole price
sell_item_full_price(id, obj, item, db) ==
    IF item \notin db.inventory[id]
    THEN Result(db, "You don't have that item in your inventory.")
    ELSE
      LET db1 == inventory_remove(db, id, item)
          obj2 == [obj EXCEPT !.gold = @ + Item(item).price]
      IN  atomic(db, Character_save(id, obj2, db1))

\* Character.sell_item
sell_item(id, obj, item, db) ==
    IF item \notin db.inventory[id]
    THEN Result(db, "You don't have that item in your inventory.")
    ELSE
      LET db1 == inventory_remove(db, id, item)
          obj2 == [obj EXCEPT !.gold = @ + sell_price(item)]
      IN  atomic(db, Character_save(id, obj2, db1))

----------------------------------------------------------------------------
(* Battle *)

BattleFields == {"attacker", "defender", "winner", "loser"}

\* A new Battle(attacker=..., defender=...): the rewards default to 0
NewBattle(attacker, defender) ==
    [pk |-> NULL, attacker |-> attacker, defender |-> defender,
     winner |-> NULL, loser |-> NULL, gold_reward |-> 0, exp_reward |-> 0]

BattleRow(b) ==
    [attacker |-> b.attacker, defender |-> b.defender, winner |-> b.winner,
     loser |-> b.loser, gold_reward |-> b.gold_reward,
     exp_reward |-> b.exp_reward]

\* clean without the check of the winner and the loser
Battle_clean_self(b) ==
    IF b.pk # NULL THEN NoError
    ELSE IF b.attacker = b.defender THEN "You can't battle yourself."
    ELSE NoError

\* clean without the comparison of the two participants
Battle_clean_pair(b) ==
    IF b.pk # NULL THEN NoError
    ELSE IF \/ b.winner \notin {b.attacker, b.defender}
            \/ b.loser \notin {b.attacker, b.defender}
    THEN "Winner/loser must be either attacker or defender."
    ELSE NoError

\* Battle.clean: only a battle that is being added is checked
Battle_clean(b) ==
    IF b.pk # NULL THEN NoError
    ELSE IF b.attacker = b.defender THEN "You can't battle yourself."
    ELSE IF \/ b.winner \notin {b.attacker, b.defender}
            \/ b.loser \notin {b.attacker, b.defender}
    THEN "Winner/loser must be either attacker or defender."
    ELSE NoError

\* full_clean of a Battle whose four references may be left empty
Battle_full_clean_blank(b, db) ==
    IF Battle_clean(b) # NoError THEN Battle_clean(b)
    ELSE IF \E f \in BattleFields :
               b[f] # NULL /\ b[f] \notin DOMAIN db.characters
    THEN "Character instance does not exist."
    ELSE IF ~ (PositiveIntegerField(b.gold_reward)
               /\ PositiveIntegerField(b.exp_reward))
    THEN "Invalid field value."
    ELSE NoError

\* Battle.full_clean: the field validators (the four references are
\* blank=False and must name a stored character) and Battle.clean
Battle_full_clean(b, db) ==
    IF Battle_clean(b) # NoError THEN Battle_clean(b)
    ELSE IF \E f \in BattleFields : b[f] = NULL
    THEN "This field cannot be blank."
    ELSE IF \E f \in BattleFields : b[f] \notin DOMAIN db.characters
    THEN "Character instance does not exist."
    ELSE IF ~ (PositiveIntegerField(b.gold_reward)
               /\ PositiveIntegerField(b.exp_reward))
    THEN "Invalid field value."
    ELSE NoError

\* Battle.save: full_clean, then the row is inserted (or updated, once it has
\* a primary key)
Battle_save(b, db) ==
    IF Battle_full_clean(b, db) # NoError
    THEN Result(db, Battle_full_clean(b, db))
    ELSE IF b.pk = NULL
    THEN Result([db EXCEPT !.battles = Append(@, BattleRow(b))], NoError)
    ELSE Result([db EXCEPT !.battles[b.pk] = BattleRow(b)], NoError)

\* int(level * 1.4): the product cut off, not rounded
trunc_level_reward(level) == (14 * level) \div 10

\* round(level * 1.4): 14 * level is even, so the product is never a tie
round_level_reward(level) == (14 * level + 5) \div 10

gold_reward_for(loser_level) == round_level_reward(loser_level) + 2

\* the right-hand side of  self.exp_reward += loser.level * 7 + 5
exp_reward_for(prior, loser_level) == prior + loser_level * 7 + 5

\* the loser drawn at the winner's index
same_index(winner_index) == winner_index

\* battlers_list[1 - winner_index]
loser_index(winner_index) == 1 - winner_index

\* calculate_winner that returns quietly when a participant is missing
calculate_winner_quiet(b, objs, winner_index, db) ==
    IF b.attacker # NULL /\ b.defender # NULL
    THEN
      LET battlers_list == <<b.attacker, b.defender>>
          winner == battlers_list[winner_index + 1]
          loser == battlers_list[loser_index(winner_index) + 1]
          gold_reward == gold_reward_for(objs[loser].level)
          exp_reward == exp_reward_for(b.exp_reward, objs[loser].level)
          paid == [objs[winner] EXCEPT !.gold = @ + gold_reward]
          b2 == [b EXCEPT !.winner = winner, !.loser = loser,
                          !.gold_reward = gold_reward,
                          !.exp_reward = exp_reward]
          r1 == Character_save(winner, add_exp(paid, exp_reward), db)
          r2 == IF r1.error # NoError THEN r1 ELSE Battle_save(b2, r1.db)
      IN  atomic(db, r2)
    ELSE Result(db, NoError)

\* Battle.calculate_winner on the battle object b; objs gives the loaded
\* Character object of each participant, winner_index is randrange(0, 2)
calculate_winner(b, objs, winner_index, db) ==
    IF b.attacker # NULL /\ b.defender # NULL
    THEN
      LET battlers_list == <<b.attacker, b.defender>>
          winner == battlers_list[winner_index + 1]
          loser == battlers_list[loser_index(winner_index) + 1]
          gold_reward == gold_reward_for(objs[loser].level)
          exp_reward == exp_reward_for(b.exp_reward, objs[loser].level)
          paid == [objs[winner] EXCEPT !.gold = @ + gold_reward]
          b2 == [b EXCEPT !.winner = winner, !.loser = loser,
                          !.gold_reward = gold_reward,
                          !.exp_reward = exp_reward]
          r1 == Character_save(winner, add_exp(paid, exp_reward), db)
          r2 == IF r1.error # NoError THEN r1 ELSE Battle_save(b2, r1.db)
      IN  atomic(db, r2)
    ELSE Result(db, "You need 2 participants.")

----------------------------------------------------------------------------
(* Matchmaking: BattleCreateView.get_opponents *)

\* level__range=(level - 25, level + 25)
LevelWindow == 25

\* [:10]
PoolCap == 10

\* while len(opponents) < 3
MinOpponents == 3

Abs(n) == IF n < 0 THEN 0 - n ELSE n

Min(a, b) == IF a < b THEN a ELSE b

\* annotate(diff=Abs(F("level") - self.character.level))
LevelDiff(db, id, level) == Abs(db.characters[id].level - level)

\* a filter that leaves the player's own characters in
Eligible_own_too(level, user, db) ==
    {o \in DOMAIN db.characters :
        /\ db.characters[o].level >= level - LevelWindow
        /\ db.characters[o].level <= level + LevelWindow}

\* filter(level__range=...).exclude(owner=request.user)
Eligible(level, user, db) ==
    {o \in DOMAIN db.characters :
        /\ db.characters[o].level >= level - LevelWindow
        /\ db.characters[o].level <= level + LevelWindow
        /\ db.characters[o].owner # user}

\* order_by("diff", "level"): a comes strictly before b
RankedBefore(db, level, a, b) ==
    \/ LevelDiff(db, a, level) < LevelDiff(db, b, level)
    \/ /\ LevelDiff(db, a, level) = LevelDiff(db, b, level)
       /\ db.characters[a].level < db.characters[b].level

\* Every order the store may return the rows in: rows that tie on
\* (diff, level) come in an unspecified order
RECURSIVE Ranked(_, _, _)
Ranked(S, level, db) ==
    IF S = {} THEN {<<>>}
    ELSE UNION {{<<m>> \o t : t \in Ranked(S \ {m}, level, db)} :
                 m \in {x \in S : \A y \in S : ~ RankedBefore(db, level, y, x)}}

\* the bucket expansion loop
RECURSIVE expand(_, _, _, _, _)
expand(candidates, opponents, diff, level, db) ==
    IF Len(opponents) < MinOpponents /\ Len(opponents) < Len(candidates)
    THEN LET InBucket(o) == LevelDiff(db, o, level) = diff + 1
         IN  expand(candidates, opponents \o SelectSeq(candidates, InBucket),
                    diff + 1, level, db)
    ELSE opponents

\* the three nearest candidates and no more
opponents_of_nearest(candidates, level, db) ==
    SubSeq(candidates, 1, Min(Len(candidates), MinOpponents))

\* get_opponents for one order of the candidate rows
opponents_of(candidates, level, db) ==
    IF candidates = <<>> THEN <<>>
    ELSE LET InBucket(o) == LevelDiff(db, o, level) = 0
         IN  expand(candidates, SelectSeq(candidates, InBucket), 0, level, db)

\* get_opponents over all the rows of the queryset, without the slice
get_opponents_all(character, user, db) ==
    LET level == db.characters[character].level
    IN  {opponents_of(r, level, db) :
           r \in Ranked(Eligible(level, user, db), level, db)}

\* BattleCreateView.get_opponents: the set of lists it may return
get_opponents(character, user, db) ==
    LET level == db.characters[character].level
    IN  {opponents_of(SubSeq(r, 1, Min(Len(r), PoolCap)), level, db) :
           r \in Ranked(Eligible(level, user, db), level, db)}

----------------------------------------------------------------------------
(* The requests *)

CharIds == 1 .. 3

\* A character as Character.objects.create(level=..., gold=...,
\* equipped_weapon=...) stores it: no experience, an empty inventory, the
\* stats computed by save
CreatedCharacter(owner, race, profession, level, gold, weapon) ==
    recalculate_stats(
        [owner |-> owner, race |-> race, profession |-> profession,
         level |-> level, current_exp |-> 0, gold |-> gold,
         damage |-> 1, health |-> 100, protection |-> 1,
         equipped |-> [s \in Slots |->
                         IF s = "weapon" THEN weapon ELSE NULL]])

\* Three characters with the default weapon; the third is close to the
\* largest gold the store accepts
InitialCharacters ==
    [c \in CharIds |->
        CASE c = 1 -> CreatedCharacter("p1", "human", "warrior", 1, 0,
                                       DefaultWeapon)
          [] c = 2 -> CreatedCharacter("p1", "elf", "mage", 2, 0,
                                       DefaultWeapon)
          [] OTHER -> CreatedCharacter("p2", "human", "warrior", 5,
                                       MaxPosInt - 4, DefaultWeapon)]

\* The shop scenario: the first character shops with the gold and level
\* given, the other two own nothing
ShopCharacters(level, gold) ==
    [c \in CharIds |->
        CASE c = 1 -> CreatedCharacter("p1", "human", "warrior", level, gold,
                                       DefaultWeapon)
          [] c = 2 -> CreatedCharacter("p1", "elf", "mage", 2, 0, NULL)
          [] OTHER -> CreatedCharacter("p2", "human", "warrior", 5, 0, NULL)]

ShopLevels == {1, 2}

ShopGold == {9, ShopMaxPosInt - 1}

\* The characters the shop requests name
ShopChars == {1}

\* A session key that is not set, and one that holds a value
Absent == <<>>

Present(value) == <<value>>

Request(op, char, arg, err) ==
    [op |-> op, char |-> char, arg |-> arg, error |-> err]

InitRest ==
    /\ inventory = [c \in CharIds |-> {}]
    /\ battles = <<>>
    /\ session = [p \in Players |->
                    [battle_create_allowed |-> FALSE,
                     opponents_for |-> [c \in CharIds |-> Absent]]]
    /\ last = Request("none", NULL, NULL, NoError)

Init ==
    /\ characters = InitialCharacters
    /\ field_max = MaxPosInt
    /\ InitRest

\* The experience scenario: the first character starts at the level and
\* with the experience given
ExpLevels == {1, 2}

ExpStart == {0, 39}

ExpAmounts == {0, 40, 200, 15450}

ExpChars == {1}

ExpCharacters(level, exp) ==
    [c \in CharIds |->
        IF c \in ExpChars
        THEN recalculate_stats([InitialCharacters[c] EXCEPT
                                   !.level = level, !.current_exp = exp])
        ELSE InitialCharacters[c]]

InitExp ==
    /\ \E level \in ExpLevels, exp \in ExpStart :
          characters = ExpCharacters(level, exp)
    /\ field_max = ExpMaxPosInt
    /\ InitRest

InitShop ==
    /\ \E level \in ShopLevels, gold \in ShopGold :
          characters = ShopCharacters(level, gold)
    /\ field_max = ShopMaxPosInt
    /\ InitRest

\* The matchmaking scenario: characters 1 and 2 belong to the first
\* player and have the level given, the characters from 3 on belong to the
\* second player and have the levels of the layout; each player has joined
\* the battle from a character page
MatchLevels == {5, 30, 35}

MatchLayouts ==
    {<<60>>,
     <<5, 55, 4, 56>>,
     <<30, 29, 31, 31, 28>>,
     <<29, 31, 28, 32, 27, 33>>,
     <<40, 50, 20>>,
     <<31, 32, 33, 34, 35, 36, 37, 38, 39, 40, 41, 42>>,
     <<30, 29, 28, 28, 28, 28, 32, 32, 32, 32, 32, 40>>}

MatchCharacters(level, layout) ==
    [c \in 1 .. 2 + Len(layout) |->
        IF c <= 2
        THEN CreatedCharacter("p1", "human", "warrior", level, 0,
                              DefaultWeapon)
        ELSE CreatedCharacter("p2", "human", "warrior", layout[c - 2], 0,
                              DefaultWeapon)]

InitMatch ==
    /\ \E level \in MatchLevels, layout \in MatchLayouts :
          characters = MatchCharacters(level, layout)
    /\ field_max = MaxPosInt
    /\ inventory = [c \in DOMAIN characters |-> {}]
    /\ battles = <<>>
    /\ session = [p \in Players |->
                    [battle_create_allowed |-> TRUE,
                     opponents_for |-> [c \in CharIds |-> Absent]]]
    /\ last = Request("join_battle", NULL, NULL, NoError)

\* The scenario of a list that goes stale: the first character is 12
\* experience short of level 27, the second is at the lower end of its
\* level window and the third just above the upper end
FreshCharacters ==
    [c \in CharIds |->
        CASE c = 1 -> [CreatedCharacter("p1", "human", "warrior", 26, 0,
                                        DefaultWeapon)
                          EXCEPT !.current_exp = exp_for_level(26) - 12]
          [] c = 2 -> CreatedCharacter("p2", "human", "warrior", 1, 0,
                                       DefaultWeapon)
          [] OTHER -> CreatedCharacter("p2", "human", "warrior", 52, 0,
                                       DefaultWeapon)]

InitFresh ==
    /\ characters = FreshCharacters
    /\ field_max = FreshMaxPosInt
    /\ InitRest

\* The scenario of the requests of a player on a character of another:
\* the first character has gold for one item
OwnerGold == 1

InitOwner ==
    /\ characters = ShopCharacters(1, OwnerGold)
    /\ field_max = MaxPosInt
    /\ InitRest

\* The roster scenario: the three characters, with their names
RosterNames == {<<"a", "b">>, <<"f", "e">>, <<"a", "1">>}

RosterCharacters ==
    [c \in CharIds |->
        Extended(InitialCharacters[c], "name",
                 CASE c = 1 -> <<"a", "b">>
                   [] c = 2 -> <<"c", "d">>
                   [] OTHER -> <<"e", "f">>)]

InitRoster ==
    /\ characters = RosterCharacters
    /\ field_max = MaxPosInt
    /\ InitRest

DB == Database(characters, inventory, battles)

Commit(db) ==
    /\ characters' = db.characters
    /\ inventory' = db.inventory
    /\ battles' = db.battles

NotOwner == "You cannot perform actions on characters not owned by you."

NotFound == "404"

\* What the record of a request keeps of its argument: a request refused
\* for its character never reads it
Seen(r, arg) == IF r.error \in {NotOwner, NotFound} THEN NULL ELSE arg

\* a test that lets every player pass
test_func_anyone(p, c) == TRUE

\* CharacterOwnerCheckMixin.test_func
test_func(p, c) == characters[c].owner = p

\* InventoryView.post with item_equip
EquipItem(p, c, i) ==
    LET r == IF test_func(p, c) THEN equip_item(c, characters[c], i, DB)
             ELSE Result(DB, NotOwner)
    IN  /\ Commit(r.db)
        /\ last' = Request("equip_item", c, Seen(r, i), r.error)
        /\ UNCHANGED <<session, field_max>>

\* CharacterDetailView.post with item_unequip
UnequipItem(p, c, i) ==
    LET r == IF p = characters[c].owner
             THEN unequip_item(c, characters[c], i, DB)
             ELSE Result(DB, NotOwner)
    IN  /\ Commit(r.db)
        /\ last' = Request("unequip_item", c, Seen(r, i), r.error)
        /\ UNCHANGED <<session, field_max>>

\* confirm_deal_view with action buy
BuyItem(p, c, i) ==
    LET r == IF characters[c].owner = p
             THEN buy_item(c, characters[c], i, DB)
             ELSE Result(DB, NotFound)
    IN  /\ Commit(r.db)
        /\ last' = Request("buy_item", c, Seen(r, i), r.error)
        /\ UNCHANGED <<session, field_max>>

\* confirm_deal_view with action sell
SellItem(p, c, i) ==
    LET r == IF characters[c].owner = p
             THEN sell_item(c, characters[c], i, DB)
             ELSE Result(DB, NotFound)
    IN  /\ Commit(r.db)
        /\ last' = Request("sell_item", c, Seen(r, i), r.error)
        /\ UNCHANGED <<session, field_max>>

\* A buy request followed at once by the sell request of the same item
BuyThenSell(p, c, i) ==
    LET r1 == IF characters[c].owner = p
              THEN buy_item(c, characters[c], i, DB)
              ELSE Result(DB, NotFound)
        r2 == IF r1.error # NoError THEN r1
              ELSE sell_item(c, r1.db.characters[c], i, r1.db)
    IN  /\ Commit(r2.db)
        /\ last' = Request("buy_then_sell", c, Seen(r2, i), r2.error)
        /\ UNCHANGED <<session, field_max>>

\* An equip request followed at once by the unequip request of the same
\* item
EquipThenUnequip(p, c, i) ==
    LET r1 == IF test_func(p, c) THEN equip_item(c, characters[c], i, DB)
              ELSE Result(DB, NotOwner)
        r2 == IF r1.error # NoError THEN r1
              ELSE unequip_item(c, r1.db.characters[c], i, r1.db)
    IN  /\ Commit(r2.db)
        /\ last' = Request("equip_then_unequip", c, Seen(r2, i), r2.error)
        /\ UNCHANGED <<session, field_max>>

\* character.add_exp(amount), then character.save()
GainExp(c, amount) ==
    LET obj == add_exp(characters[c], amount)
        r == Character_save(c, obj, DB)
    IN  /\ obj.level <= ExpMaxLevel
        /\ Commit(r.db)
        /\ last' = Request("add_exp", c, amount, r.error)
        /\ UNCHANGED <<session, field_max>>

\* The instance of the form of CharacterCreateView before the data is read
BlankCharacter ==
    [name |-> <<>>, race |-> Blank, profession |-> Blank, owner |-> Blank]

\* CharacterCreateView.post: the owner is set to request.user, the form is
\* validated and saved.  An exception that is no ValidationError answers
\* with status 500.
CreateCharacter(p, data) ==
    LET instance == construct_instance(
                       [BlankCharacter EXCEPT !.owner = p], data)
        r == Character_save_adding(instance, DB)
    IN  /\ r.error = NoError => next_pk(DB) <= MaxCharacters
        /\ Commit(r.db)
        /\ last' = Request("create_character",
                           IF r.error = NoError THEN next_pk(DB) ELSE NULL,
                           data, r.error)
        /\ UNCHANGED <<session, field_max>>

\* super().save() of a new character whose full_clean has passed: the
\* INSERT, which the unique index on name refuses when a row with the name
\* has been stored since
Character_insert(obj, db) ==
    IF \E c \in DOMAIN db.characters : db.characters[c].name = obj.name
    THEN Result(db, "IntegrityError: UNIQUE constraint failed: name")
    ELSE Result([db EXCEPT
                    !.characters =
                        Extended(@, next_pk(db), NewCharacterRow(obj)),
                    !.inventory = Extended(@, next_pk(db), {})],
                NoError)

\* Two character creation requests of player p in flight together.  Each
\* runs full_clean, where clean counts owner.characters with a query, and
\* inserts afterwards; nothing locks the player's rows between the count
\* and the INSERT, so both counts are taken before either row is stored.
TwoCreations(p, first, second) ==
    LET obj1 == construct_instance([BlankCharacter EXCEPT !.owner = p],
                                   first)
        obj2 == construct_instance([BlankCharacter EXCEPT !.owner = p],
                                   second)
        e1 == Character_full_clean_adding(obj1, DB)
        e2 == Character_full_clean_adding(obj2, DB)
        r1 == IF e1 # NoError THEN Result(DB, e1)
              ELSE Character_insert(obj1, DB)
        r2 == IF e2 # NoError THEN Result(r1.db, e2)
              ELSE Character_insert(obj2, r1.db)
    IN  /\ next_pk(r2.db) <= MaxCharacters + 1
        /\ Commit(r2.db)
        /\ last' = Request("two_creations", NULL,
                           [owner |-> p, first |-> first, second |-> second,
                            errors |-> <<r1.error, r2.error>>],
                           IF r1.error # NoError THEN r1.error
                           ELSE r2.error)
        /\ UNCHANGED <<session, field_max>>

\* CharacterDeleteView.post
DeleteCharacter(p, c) ==
    LET r == IF c \notin DOMAIN characters THEN Result(DB, NotFound)
             ELSE IF ~ test_func(p, c) THEN Result(DB, NotOwner)
             ELSE Result(Character_delete(c, DB), NoError)
    IN  /\ Commit(r.db)
        /\ last' = Request("delete_character", c, NULL, r.error)
        /\ UNCHANGED <<session, field_max>>

\* CharacterDetailView.post with join_battle
JoinBattle(p, c) ==
    /\ IF p = characters[c].owner
       THEN /\ session' = [session EXCEPT ![p].battle_create_allowed = TRUE]
            /\ last' = Request("join_battle", c, NULL, NoError)
       ELSE /\ UNCHANGED session
            /\ last' = Request("join_battle", c, NULL, NotOwner)
    /\ UNCHANGED <<characters, inventory, battles, field_max>>

\* a flag that is read and left in the session
pop_allowed_keep(sess) == sess

\* request.session.pop("battle_create_allowed", False)
pop_allowed(sess) == [sess EXCEPT !.battle_create_allowed = FALSE]

\* a list that is remembered only where none is remembered yet
set_opponents_once(sess, c, opponents) ==
    IF sess.opponents_for[c] # Absent THEN sess
    ELSE [sess EXCEPT !.opponents_for[c] = Present(opponents)]

\* request.session[f"opponents_for_{id}"] = [...]
set_opponents(sess, c, opponents) ==
    [sess EXCEPT !.opponents_for[c] = Present(opponents)]

\* GET battle-create: BattleCreateView.dispatch, then BattleCreateView.get
FindOpponents(p, c) ==
    /\ UNCHANGED <<characters, inventory, battles, field_max>>
    /\ IF ~ session[p].battle_create_allowed
       THEN /\ UNCHANGED session
            /\ last' = Request("find_opponents", c, NULL,
                               "Join the battle from Character page.")
       ELSE IF ~ test_func(p, c)
       THEN /\ session' = [session EXCEPT ![p] = pop_allowed(@)]
            /\ last' = Request("find_opponents", c, NULL, NotOwner)
       ELSE \E opponents \in get_opponents(c, p, DB) :
            /\ session' = [session EXCEPT
                              ![p] = set_opponents(pop_allowed(@), c,
                                                   opponents)]
            /\ last' = Request("find_opponents", c, NULL, NoError)

\* a lookup that takes the list of any character of the session
remembered_any(sess, c) ==
    LET set == {k \in CharIds : sess.opponents_for[k] # Absent}
    IN  IF set = {} THEN <<>>
        ELSE sess.opponents_for[CHOOSE k \in set : TRUE][1]

\* session.get(f"opponents_for_{id}", [])
remembered(sess, c) ==
    IF sess.opponents_for[c] = Absent THEN <<>> ELSE sess.opponents_for[c][1]

InList(x, list) == \E k \in 1 .. Len(list) : list[k] = x

\* the Battle object of the stored row k
LoadedBattle(db, k) ==
    LET row == db.battles[k]
    IN  [pk |-> k, attacker |-> row.attacker,
         defender |-> row.defender, winner |-> row.winner,
         loser |-> row.loser, gold_reward |-> row.gold_reward,
         exp_reward |-> row.exp_reward]

\* the Battle object as it is after calculate_winner stored it
StoredBattle(db) == LoadedBattle(db, Len(db.battles))

\* BattleCreateView.form_valid: calculate_winner, then the form saves the
\* battle object once more
form_valid(b, winner_index, db) ==
    LET r == calculate_winner(b, db.characters, winner_index, db)
    IN  IF r.error # NoError THEN r ELSE Battle_save(StoredBattle(r.db), r.db)

\* BattleCreateView.form_valid on the Character objects objs that the view
\* loaded before (the attacker in dispatch, the defender with the form)
form_valid_loaded(b, objs, winner_index, db) ==
    LET r == calculate_winner(b, objs, winner_index, db)
    IN  IF r.error # NoError THEN r ELSE Battle_save(StoredBattle(r.db), r.db)

\* a view that keeps the list after the battle
pop_none(sess, c) == sess

\* request.session.pop(f"opponents_for_{id}", None)
pop_opponents(sess, c) == [sess EXCEPT !.opponents_for[c] = Absent]

\* What a battle-create POST submits: the defender, and values for the
\* other fields of a Battle (NULL where the request has none)
BattleData(defender, attacker, winner, loser, gold_reward, exp_reward) ==
    [defender |-> defender, attacker |-> attacker, winner |-> winner,
     loser |-> loser, gold_reward |-> gold_reward,
     exp_reward |-> exp_reward]

\* The request the page sends: the defender and nothing else
OnlyDefender(d) == BattleData(d, NULL, NULL, NULL, NULL, NULL)

\* a form that has every field of the Battle
construct_battle_all(instance, data) ==
    [f \in DOMAIN instance |->
        IF f \in DOMAIN data /\ data[f] # NULL THEN data[f]
        ELSE instance[f]]

\* ChooseBattleOpponentForm: the field defender of the submitted data is
\* written to the instance, the other data is dropped
construct_battle(instance, data) ==
    [instance EXCEPT !.defender = data.defender]

\* POST battle-create with the data given: BattleCreateView.post.  A
\* response with status 500 (an exception that left the view) does not
\* save the session.
PostBattle(p, c, data) ==
    LET form == construct_battle(NewBattle(NULL, NULL), data)
        d == form.defender
    IN
    /\ UNCHANGED field_max
    /\ IF ~ test_func(p, c)
       THEN /\ last' = Request("create_battle", c, NULL, NotOwner)
            /\ UNCHANGED <<characters, inventory, battles, session>>
       ELSE IF d \notin DOMAIN characters
       THEN /\ last' = Request("create_battle", c, d, "Invalid form.")
            /\ UNCHANGED <<characters, inventory, battles, session>>
       ELSE IF ~ InList(d, remembered(session[p], c))
       THEN /\ last' = Request("create_battle", c, d,
                               "Opponent must be from a provided list.")
            /\ UNCHANGED <<characters, inventory, battles, session>>
       ELSE \E winner_index \in {0, 1} :
            LET b == [form EXCEPT !.attacker = c]
                r == form_valid(b, winner_index, DB)
            IN  /\ Len(r.db.battles) <= MaxBattles
                /\ Commit(r.db)
                /\ last' = Request("create_battle", c, d, r.error)
                /\ session' =
                     IF r.error # NoError THEN session
                     ELSE [session EXCEPT ![p] = pop_opponents(@, c)]

\* POST battle-create as the page sends it
CreateBattle(p, c, d) == PostBattle(p, c, OnlyDefender(d))

\* The battle-create POST that names the defender d, submitted twice, both
\* requests in flight together.  Each request loads the session and the
\* characters before the other one saved anything: nothing locks the
\* session or the rows, so both find d in the remembered list, both run
\* form_valid, and both save the session without the list.
DoublePost(p, c, d) ==
    /\ test_func(p, c)
    /\ d \in DOMAIN characters
    /\ InList(d, remembered(session[p], c))
    /\ Len(battles) + 2 <= MaxBattles
    /\ UNCHANGED field_max
    /\ \E first_index \in {0, 1}, second_index \in {0, 1} :
       LET form == construct_battle(NewBattle(NULL, NULL), OnlyDefender(d))
           b == [form EXCEPT !.attacker = c]
           r1 == form_valid_loaded(b, characters, first_index, DB)
           r2 == form_valid_loaded(b, characters, second_index, r1.db)
       IN  /\ Commit(r2.db)
           /\ last' = Request("double_post", c,
                              [defender |-> d,
                               winner_index |-> <<first_index,
                                                  second_index>>,
                               errors |-> <<r1.error, r2.error>>],
                              IF r1.error # NoError THEN r1.error
                              ELSE r2.error)
           /\ session' =
                IF r1.error # NoError /\ r2.error # NoError THEN session
                ELSE [session EXCEPT ![p] = pop_opponents(@, c)]

\* The session of player p after a battle-create GET for character c that
\* returned the opponents given
AfterGet(p, c, opponents) ==
    IF ~ session[p].battle_create_allowed THEN session[p]
    ELSE IF ~ test_func(p, c) THEN pop_allowed(session[p])
    ELSE set_opponents(pop_allowed(session[p]), c, opponents)

\* A battle-create GET followed at once by the battle-create POST that
\* names the defender d; the record keeps the list that was remembered
\* before the GET
FindThenCreate(p, c, d) ==
    /\ UNCHANGED field_max
    /\ \E opponents \in IF test_func(p, c) THEN get_opponents(c, p, DB)
                         ELSE {<<>>} :
       LET sess == AfterGet(p, c, opponents)
           arg == [defender |-> d, earlier |-> remembered(session[p], c)]
       IN  IF ~ test_func(p, c)
           THEN /\ last' = Request("find_then_create", c, NULL, NotOwner)
                /\ session' = [session EXCEPT ![p] = sess]
                /\ UNCHANGED <<characters, inventory, battles>>
           ELSE IF d \notin DOMAIN characters
           THEN /\ last' = Request("find_then_create", c, arg, "Invalid form.")
                /\ session' = [session EXCEPT ![p] = sess]
                /\ UNCHANGED <<characters, inventory, battles>>
           ELSE IF ~ InList(d, remembered(sess, c))
           THEN /\ last' = Request("find_then_create", c, arg,
                                   "Opponent must be from a provided list.")
                /\ session' = [session EXCEPT ![p] = sess]
                /\ UNCHANGED <<characters, inventory, battles>>
           ELSE \E winner_index \in {0, 1} :
                LET b == [NewBattle(NULL, d) EXCEPT !.attacker = c]
                    r == form_valid(b, winner_index, DB)
                IN  /\ Len(r.db.battles) <= MaxBattles
                    /\ Commit(r.db)
                    /\ last' = Request("find_then_create", c, arg, r.error)
                    /\ session' =
                         [session EXCEPT ![p] =
                             IF r.error # NoError THEN sess
                             ELSE pop_opponents(sess, c)]

\* Battle(attacker=a, defender=d).calculate_winner(), as the model's tests
\* call it
ResolveBattle(a, d) ==
    /\ \E winner_index \in {0, 1} :
       LET r == calculate_winner(NewBattle(a, d), characters, winner_index, DB)
       IN  /\ Len(r.db.battles) <= MaxBattles
           /\ Commit(r.db)
           /\ last' = Request("calculate_winner", a, d, r.error)
    /\ UNCHANGED <<session, field_max>>

\* Battle(attacker=a, defender=d, winner=w, loser=l).save()
SaveBattle(a, d, w, l) ==
    /\ LET b == [NewBattle(a, d) EXCEPT !.winner = w, !.loser = l]
           r == Battle_save(b, DB)
       IN  /\ r.error = NoError => Len(battles) < MaxSaves
           /\ Commit(r.db)
           /\ last' = Request("save", a, d, r.error)
    /\ UNCHANGED <<session, field_max>>

\* calculate_winner called once more on a battle that is already stored
ResolveAgain(k) ==
    /\ k \in 1 .. Len(battles)
    /\ \E winner_index \in {0, 1} :
       LET b == LoadedBattle(DB, k)
           r == calculate_winner(b, characters, winner_index, DB)
       IN  /\ Commit(r.db)
           /\ last' = Request("calculate_winner", b.attacker, b.defender,
                              r.error)
    /\ UNCHANGED <<session, field_max>>

\* The methods the detail, inventory and deal views call on the character
\* they loaded
ShopOps == {"equip_item", "unequip_item", "buy_item", "sell_item"}

\* The items the requests in flight together name: the two weapons
PairItems == {DefaultWeapon, 2}

\* What a request of these views names: the method and the item
ShopRequests == [op : ShopOps, item : PairItems]

\* character.<op>(item) on the loaded object obj
Call(op, id, obj, item, db) ==
    CASE op = "equip_item" -> equip_item(id, obj, item, db)
      [] op = "unequip_item" -> unequip_item(id, obj, item, db)
      [] op = "buy_item" -> buy_item(id, obj, item, db)
      [] OTHER -> sell_item(id, obj, item, db)

\* Two requests of the owner p on its character c that are in flight
\* together.  Each view loads the Character object
\* (CharacterDispatchMixin.dispatch, get_object_or_404 in
\* confirm_deal_view) and calls the method on its copy later; no row is
\* locked, so the copy of the second request is the row as it was before
\* the first request committed.  The methods read the inventory with a
\* query of their own and write the whole row of the copy.
TwoRequests(p, c, first, second) ==
    /\ characters[c].owner = p
    /\ LET r1 == Call(first.op, c, characters[c], first.item, DB)
           r2 == Call(second.op, c, characters[c], second.item, r1.db)
       IN  /\ Commit(r2.db)
           /\ last' = Request("two_requests", c,
                              [first |-> first, second |-> second,
                               errors |-> <<r1.error, r2.error>>],
                              IF r1.error # NoError THEN r1.error
                              ELSE r2.error)
    /\ UNCHANGED <<session, field_max>>

\* The inventory and shop requests
NextShop ==
    \/ \E p \in Players, c \in ShopChars, i \in Items : EquipItem(p, c, i)
    \/ \E p \in Players, c \in ShopChars, i \in Items : UnequipItem(p, c, i)
    \/ \E p \in Players, c \in ShopChars, i \in Items : BuyItem(p, c, i)
    \/ \E p \in Players, c \in ShopChars, i \in Items : SellItem(p, c, i)

\* A battle of a against d, resolved while a request of the winner's owner
\* p on the winner is in flight.  BattleCreateView loads the attacker in
\* dispatch and the defender with the form, the other view loads the
\* character it names; calculate_winner and the method each write the
\* whole row of their copy of the winner, and no row is locked: both copies
\* are the row as it was before either committed.  battle_first says which
\* of the two commits first.
ResolveAndRequest(p, a, d, req, battle_first) ==
    /\ a # d
    /\ Len(battles) < MaxDuels
    /\ \E winner_index \in {0, 1} :
       LET winner == IF winner_index = 0 THEN a ELSE d
           battle(db) == calculate_winner(NewBattle(a, d), characters,
                                          winner_index, db)
           request(db) == Call(req.op, winner, characters[winner],
                               req.item, db)
           r1 == IF battle_first THEN battle(DB) ELSE request(DB)
           r2 == IF battle_first THEN request(r1.db) ELSE battle(r1.db)
       IN  /\ characters[winner].owner = p
           /\ Commit(r2.db)
           /\ last' = Request("battle_and_request", winner,
                              [attacker |-> a, defender |-> d,
                               winner_index |-> winner_index,
                               request |-> req,
                               battle_first |-> battle_first,
                               errors |-> <<r1.error, r2.error>>],
                              IF r1.error # NoError THEN r1.error
                              ELSE r2.error)
    /\ UNCHANGED <<session, field_max>>

\* Two battles of a against d resolved together: each calculate_winner
\* works on the Character objects its view loaded before the other
\* committed
TwoResolves(a, d) ==
    /\ a # d
    /\ Len(battles) + 2 <= MaxBattles
    /\ \E first_index \in {0, 1}, second_index \in {0, 1} :
       LET r1 == calculate_winner(NewBattle(a, d), characters, first_index,
                                  DB)
           r2 == calculate_winner(NewBattle(a, d), characters, second_index,
                                  r1.db)
       IN  /\ Commit(r2.db)
           /\ last' = Request("two_battles", a,
                              [attacker |-> a, defender |-> d,
                               winner_index |-> <<first_index,
                                                  second_index>>,
                               errors |-> <<r1.error, r2.error>>],
                              IF r1.error # NoError THEN r1.error
                              ELSE r2.error)
    /\ UNCHANGED <<session, field_max>>

\* The shopper joins the battle, looks for opponents, buys, and submits
\* the form once or twice
NextDouble ==
    \/ \E p \in Players, c \in ShopChars : JoinBattle(p, c)
    \/ \E p \in Players, c \in ShopChars : FindOpponents(p, c)
    \/ \E p \in Players, c \in ShopChars, i \in PairItems : BuyItem(p, c, i)
    \/ \E p \in Players, c \in ShopChars, d \in CharIds :
          CreateBattle(p, c, d)
    \/ \E p \in Players, c \in ShopChars, d \in CharIds :
          DoublePost(p, c, d)

\* The characters that fight in the scenario of the battle that overlaps
\* a request: the shopper and the character of the other player
ClashChars == {1, 3}

\* The requests of the shopper about the two weapons one at a time, and
\* a battle that overlaps one of them or another battle
NextClash ==
    \/ \E p \in Players, c \in ShopChars, i \in PairItems : EquipItem(p, c, i)
    \/ \E p \in Players, c \in ShopChars, i \in PairItems :
          UnequipItem(p, c, i)
    \/ \E p \in Players, c \in ShopChars, i \in PairItems : BuyItem(p, c, i)
    \/ \E p \in Players, c \in ShopChars, i \in PairItems : SellItem(p, c, i)
    \/ \E p \in Players, a \in ClashChars, d \in ClashChars,
          req \in ShopRequests, battle_first \in BOOLEAN :
          ResolveAndRequest(p, a, d, req, battle_first)
    \/ \E a \in ClashChars, d \in ClashChars : TwoResolves(a, d)

\* A pair of requests in flight together that follows a request served
\* alone
PairOnce(p, c, first, second) ==
    /\ last.op # "two_requests"
    /\ TwoRequests(p, c, first, second)

\* The requests of the shopper about the two weapons, one at a time or
\* two in flight together
NextPair ==
    \/ \E p \in Players, c \in ShopChars, i \in PairItems : EquipItem(p, c, i)
    \/ \E p \in Players, c \in ShopChars, i \in PairItems :
          UnequipItem(p, c, i)
    \/ \E p \in Players, c \in ShopChars, i \in PairItems : BuyItem(p, c, i)
    \/ \E p \in Players, c \in ShopChars, i \in PairItems : SellItem(p, c, i)
    \/ \E p \in Players, c \in ShopChars, first \in ShopRequests,
          second \in ShopRequests : PairOnce(p, c, first, second)

\* Two requests about the same item, one right after the other
NextRound ==
    \/ \E p \in Players, c \in ShopChars, i \in Items : BuyThenSell(p, c, i)
    \/ \E p \in Players, c \in ShopChars, i \in Items :
          EquipThenUnequip(p, c, i)

\* Experience gained
NextExp == \E c \in ExpChars, amount \in ExpAmounts : GainExp(c, amount)

\* The battle requests
NextBattle ==
    \/ \E p \in Players, c \in CharIds : JoinBattle(p, c)
    \/ \E p \in Players, c \in CharIds : FindOpponents(p, c)
    \/ \E p \in Players, c \in CharIds, d \in CharIds \cup {NULL} :
          CreateBattle(p, c, d)

\* A GET and a POST in one step, while fewer battles than MaxDuels are
\* stored
FreshCreate(p, c, d) ==
    /\ FindThenCreate(p, c, d)
    /\ battles' # battles => Len(battles) < MaxDuels

\* The battle requests, each POST right after a GET
NextFresh ==
    \/ \E p \in Players, c \in CharIds : JoinBattle(p, c)
    \/ \E p \in Players, c \in CharIds : FindOpponents(p, c)
    \/ \E p \in Players, c \in CharIds, d \in CharIds \cup {NULL} :
          FreshCreate(p, c, d)

\* What a character creation request submits
CreateData ==
    [name : RosterNames, race : Races, profession : Professions,
     owner : {Blank, "p2"}]
    \cup
    [name : {<<"f", "e">>}, race : {Blank}, profession : {Blank, "mage"},
     owner : {Blank}]
    \cup
    [name : {<<"f", "e">>}, race : {"elf"}, profession : {Blank},
     owner : {Blank}]

\* Characters created and deleted
NextRoster ==
    \/ \E p \in Players, data \in CreateData : CreateCharacter(p, data)
    \/ \E p \in Players, c \in 1 .. MaxCharacters : DeleteCharacter(p, c)

\* Values for the fields of a Battle the form has no field for: none, one
\* for the attacker, one for the experience, one for each
FormExtras ==
    {OnlyDefender(NULL), BattleData(NULL, 3, NULL, NULL, NULL, NULL),
     BattleData(NULL, NULL, NULL, NULL, NULL, 7),
     BattleData(NULL, 3, 3, 2, 7, 7)}

\* What the battle-create POSTs of the form scenario submit: a defender
\* or none, with the values for the other fields
FormBattles ==
    {[extra EXCEPT !.defender = d] :
        extra \in FormExtras, d \in (1 .. MaxCharacters) \cup {NULL}}

\* What the character creation requests of the form scenario submit: the
\* three fields of the form, and nothing or a player as the owner
FormCharacters ==
    [name : {<<"a", "b">>, <<"f", "e">>}, race : {"human"},
     profession : {"warrior"}, owner : {Blank} \cup Players]

\* A battle-create POST while fewer battles than MaxDuels are stored
FormBattle(p, c, data) ==
    /\ PostBattle(p, c, data)
    /\ battles' # battles => Len(battles) < MaxDuels

\* The requests that submit a form, with data the form has no field for;
\* the battle requests name the first character
NextForm ==
    \/ \E p \in Players, c \in ShopChars : JoinBattle(p, c)
    \/ \E p \in Players, c \in ShopChars : FindOpponents(p, c)
    \/ \E p \in Players, c \in ShopChars, data \in FormBattles :
          FormBattle(p, c, data)
    \/ \E p \in Players, data \in FormCharacters : CreateCharacter(p, data)

\* A battle-create POST while fewer battles than MaxDuels are stored
OwnerCreate(p, c, d) ==
    /\ CreateBattle(p, c, d)
    /\ battles' # battles => Len(battles) < MaxDuels

\* The items the requests of the scenario name: the default weapon and
\* the accessory
OwnerItems == {DefaultWeapon, 4}

\* The characters the requests of the scenario name, while they exist
Named == ShopChars \cap DOMAIN characters

\* Every request that names a character, sent by its owner or by another
\* player, while the character exists; a deletion also after it
NextOwner ==
    \/ \E p \in Players, c \in Named, i \in OwnerItems : EquipItem(p, c, i)
    \/ \E p \in Players, c \in Named, i \in OwnerItems :
          UnequipItem(p, c, i)
    \/ \E p \in Players, c \in Named, i \in OwnerItems : BuyItem(p, c, i)
    \/ \E p \in Players, c \in Named, i \in OwnerItems : SellItem(p, c, i)
    \/ \E p \in Players, c \in Named : JoinBattle(p, c)
    \/ \E p \in Players, c \in Named : FindOpponents(p, c)
    \/ \E p \in Players, c \in Named, d \in CharIds : OwnerCreate(p, c, d)
    \/ \E p \in Players, c \in ShopChars : DeleteCharacter(p, c)

\* The matchmaking requests
NextMatch == \E p \in Players, c \in CharIds : FindOpponents(p, c)

\* Direct calls of the model's methods
NextModel ==
    \E a \in CharIds \cup {NULL}, d \in CharIds \cup {NULL} :
       ResolveBattle(a, d)

\* The attacker and the defender a directly saved battle names
SavedPairs == {NULL, 1, 2}

\* Battle(attacker=a, defender=d).calculate_winner() in the direct-call
\* scenario
DirectResolve(a, d) ==
    /\ ResolveBattle(a, d)
    /\ battles' # battles => Len(battles) < MaxSaves

\* New battles saved or resolved by direct calls
NextDirect ==
    \/ \E a \in CharIds \cup {NULL}, d \in CharIds \cup {NULL} :
          DirectResolve(a, d)
    \/ \E a \in SavedPairs, d \in SavedPairs,
          w \in CharIds \cup {NULL}, l \in CharIds \cup {NULL} :
          SaveBattle(a, d, w, l)

\* Direct calls, a stored battle resolved again among them
NextReuse ==
    \/ NextModel
    \/ \E k \in 1 .. MaxBattles : ResolveAgain(k)

\* The shop requests where the shop scenario began, the direct calls where
\* the battle scenario began
InitAtomic == Init \/ InitShop

NextAtomic ==
    \/ field_max = ShopMaxPosInt /\ NextShop
    \/ field_max = MaxPosInt /\ NextModel

\* The shopper with gold for both weapons
InitPair ==
    /\ characters = ShopCharacters(1, 9)
    /\ field_max = ShopMaxPosInt
    /\ InitRest

\* The shopper of the shop scenario where the store accepts the values of
\* the battle scenario
InitGame ==
    /\ characters = ShopCharacters(1, 9)
    /\ field_max = MaxPosInt
    /\ InitRest

\* A battle of the shopper c against d
Duel(c, d) == Len(battles) < MaxDuels /\ ResolveBattle(c, d)

NextGame ==
    \/ NextShop
    \/ \E c \in ShopChars : \E d \in CharIds \ {c} : Duel(c, d)

Next == NextShop \/ NextBattle \/ NextReuse

Spec == Init /\ [][Next]_vars

\* Any sequence of equip, unequip, buy and sell requests
SpecShop == InitShop /\ [][NextShop]_vars

\* Any sequence of join_battle, battle-create GET and POST requests
SpecBattle == Init /\ [][NextBattle]_vars

\* Any sequence of direct calculate_winner calls on new Battle objects
SpecModel == Init /\ [][NextModel]_vars

\* New Battle objects saved directly or resolved by calculate_winner
SpecDirect == Init /\ [][NextDirect]_vars

\* The requests of the owner of a character and of another player
SpecOwner == InitOwner /\ [][NextOwner]_vars

SpecForm == InitRoster /\ [][NextForm]_vars

\* Shop requests of the shopper and battles that overlap them
SpecClash == InitGame /\ [][NextClash]_vars

\* Battles of the shopper, the form submitted once or twice
SpecDouble == InitGame /\ [][NextDouble]_vars

\* What the character creation requests in flight together submit: one
\* of two names no character has at first
CrowdData ==
    [name : {<<"f", "e">>, <<"f", "a">>}, race : {"human"},
     profession : {"warrior"}, owner : {Blank}]

\* Characters created, one request at a time or two in flight together,
\* and deleted
NextCrowd ==
    \/ \E p \in Players, data \in CrowdData : CreateCharacter(p, data)
    \/ \E p \in Players, c \in 1 .. MaxCharacters : DeleteCharacter(p, c)
    \/ \E p \in Players, first \in CrowdData, second \in CrowdData :
          TwoCreations(p, first, second)

\* The roster with creation requests in flight together
SpecCrowd == InitRoster /\ [][NextCrowd]_vars

\* Shop requests, some of them in flight together
SpecPair == InitPair /\ [][NextPair]_vars

\* Any sequence of character creations and deletions
SpecRoster == InitRoster /\ [][NextRoster]_vars

\* The battle requests where a battle moves a level window
SpecFresh == InitFresh /\ [][NextFresh]_vars

\* The battle-create GET requests that follow a join_battle of each
\* player, over a population of characters
SpecMatch == InitMatch /\ [][NextMatch]_vars

\* Direct calculate_winner calls on new and on stored Battle objects
SpecReuse == Init /\ [][NextReuse]_vars

\* The operations that run in a transaction, each in its scenario
SpecAtomic == InitAtomic /\ [][NextAtomic]_vars

\* Any sequence of add_exp calls
SpecExp == InitExp /\ [][NextExp]_vars

\* Shop requests, single and in pairs that undo each other
SpecRound == InitShop /\ [][NextShop \/ NextRound]_vars

\* Shop requests of a character and battles it fights, in any order
SpecGame == InitGame /\ [][NextGame]_vars

----------------------------------------------------------------------------
(* Items: equipped and owned *)

\* C1: after any sequence of equip, unequip, buy and sell requests on a
\* newly created character, no item is both equipped in a slot of a
\* character and in that character's inventory.
EquippedNotInInventory ==
    \A c \in CharIds, s \in Slots :
        characters[c].equipped[s] # NULL =>
            characters[c].equipped[s] \notin inventory[c]

\* A weapon was bought and equipped, and the default weapon it replaced
\* was sold
EquippedNotInInventory_Witness ==
    /\ last.op = "sell_item" /\ last.error = NoError
    /\ last.arg = DefaultWeapon
    /\ characters[last.char].equipped["weapon"] = 2
    /\ inventory[last.char] = {}

EquipErrors ==
    {"You don't own this item.", "This item doesn't match your profession.",
     "Your level is not high enough."}

\* C9: equip_item fails with a validation error and leaves the equipped
\* slots, the gold and the inventory as they were when the item is not in
\* the inventory, when the character's profession is not allowed for the
\* item, or when the item requires a higher level.
EquipRejected ==
    [][\A c \in CharIds, i \in Items :
          (/\ last'.op = "equip_item" /\ last'.char = c /\ last'.arg = i
           /\ \/ i \notin inventory[c]
              \/ characters[c].profession \notin Item(i).allowed_professions
              \/ Item(i).level_required > characters[c].level)
          => /\ last'.error \in EquipErrors
             /\ characters' = characters
             /\ inventory' = inventory]_vars

\* An owned item of a higher level was refused
EquipRejected_Witness ==
    /\ last.op = "equip_item"
    /\ last.error = "Your level is not high enough."
    /\ last.arg \in inventory[last.char]
    /\ Item(last.arg).level_required > characters[last.char].level

\* C10: a successful equip_item puts the item in the slot of its kind and
\* takes it out of the inventory, moves the item that was in that slot to
\* the inventory, and leaves the other two slots as they were.
EquipMovesItems ==
    [][\A c \in CharIds, i \in Items :
          (/\ last'.op = "equip_item" /\ last'.char = c /\ last'.arg = i
           /\ last'.error = NoError)
          => LET slot == Item(i).slot
                 old == characters[c].equipped[slot]
             IN  /\ characters'[c].equipped[slot] = i
                 /\ i \notin inventory'[c]
                 /\ old # NULL => old \in inventory'[c]
                 /\ \A s \in Slots \ {slot} :
                       characters'[c].equipped[s] = characters[c].equipped[s]
       ]_vars

\* The bought weapon is equipped beside an armor, and the default weapon
\* it replaced is in the inventory
EquipMovesItems_Witness ==
    /\ last.op = "equip_item" /\ last.error = NoError
    /\ last.arg = 2
    /\ characters[last.char].equipped["weapon"] = 2
    /\ characters[last.char].equipped["armor"] = 3
    /\ inventory[last.char] = {DefaultWeapon}

----------------------------------------------------------------------------
(* Battles: the remembered opponents *)

\* The list remembered for character c in the session of player p names d
Offered(p, c, d) ==
    /\ session[p].opponents_for[c] # Absent
    /\ \E k \in 1 .. Len(session[p].opponents_for[c][1]) :
          session[p].opponents_for[c][1][k] = d

\* C2: a battle-create POST whose defender is not in the list remembered
\* for the attacker is rejected: no Battle is created, no character
\* changes, and the remembered lists stay as they were.  A list remembered
\* for another character does not count, and no list is an empty list.
RejectedOutsideList ==
    [][last'.op = "create_battle"
       => \A p \in Players, c \in {last'.char}, d \in CharIds \cup {NULL} :
             (/\ last'.arg \in {d, NULL}
              /\ ~ Offered(p, c, d)
              /\ CreateBattle(p, c, d))
             => /\ last'.error # NoError
                /\ battles' = battles
                /\ characters' = characters
                /\ inventory' = inventory
                /\ session' = session]_vars

\* The defender was offered to another character of the same player, and
\* the attacker has no list
RejectedOutsideList_Witness ==
    /\ last.op = "create_battle" /\ last.char = 1 /\ last.arg = 3
    /\ last.error = "Opponent must be from a provided list."
    /\ session["p1"].opponents_for[1] = Absent
    /\ Offered("p1", 2, 3)
    /\ battles = <<>>

\* C3: a successful battle-create POST consumes the list remembered for
\* the attacker; while no list is remembered every battle-create POST for
\* that attacker is rejected, and only a battle-create GET for that
\* attacker remembers a list again.
ListConsumed ==
    [][/\ last'.op = "create_battle"
          => \A p \in Players, c \in {last'.char},
                d \in CharIds \cup {NULL} :
                (/\ last'.arg \in {d, NULL}
                 /\ (last'.error = NotOwner) = (characters[c].owner # p)
                 /\ CreateBattle(p, c, d))
                => /\ last'.error = NoError
                      => session'[p].opponents_for[c] = Absent
                   /\ session[p].opponents_for[c] = Absent
                      => last'.error # NoError /\ battles' = battles
       /\ \A p \in Players, c \in CharIds :
             (/\ session[p].opponents_for[c] = Absent
              /\ session'[p].opponents_for[c] # Absent)
             => /\ last'.op = "find_opponents" /\ last'.char = c
                /\ last'.error = NoError
      ]_vars

\* The same defender was accepted once and refused the second time
ListConsumed_Witness ==
    /\ Len(battles) = 1
    /\ last.op = "create_battle"
    /\ last.char = battles[1].attacker /\ last.arg = battles[1].defender
    /\ last.error = "Opponent must be from a provided list."
    /\ session["p1"].opponents_for[last.char] = Absent

----------------------------------------------------------------------------
(* Battles: the resolver *)

\* The rows of the battle table written by the step
Written(k) ==
    /\ k \in 1 .. Len(battles')
    /\ k > Len(battles) \/ battles'[k] # battles[k]

\* C4: calculate_winner on a battle with two distinct participants stores
\* a Battle whose winner is the attacker or the defender and whose loser is
\* the other one; either participant can win.
WinnerIsParticipant ==
    [][\A a \in CharIds, d \in CharIds :
          (/\ last'.op = "calculate_winner" /\ last'.error = NoError
           /\ last'.char = a /\ last'.arg = d /\ a # d)
          => /\ Len(battles') = Len(battles) + 1
             /\ LET row == battles'[Len(battles')]
                IN  /\ row.attacker = a /\ row.defender = d
                    /\ row.winner \in {a, d}
                    /\ row.loser \in {a, d}
                    /\ row.winner # row.loser]_vars

\* One battle was won by its attacker and one by its defender
WinnerIsParticipant_Witness ==
    /\ Len(battles) = 2
    /\ battles[1].winner = battles[1].attacker
    /\ battles[2].winner = battles[2].defender
    /\ battles[1].attacker # battles[1].defender
    /\ battles[2].attacker # battles[2].defender

\* C5: a resolved battle stores gold_reward = round(L * 1.4) + 2 and
\* exp_reward = L * 7 + 5, L the level of the loser when the battle is
\* resolved.  (g is the nearest integer to 1.4 * L when 10 * g is within 5
\* of 14 * L.)
RewardsFromLoserLevel ==
    [][\A k \in 1 .. MaxBattles :
          (last'.op = "calculate_winner" /\ Written(k))
          => LET L == characters[battles'[k].loser].level
                 g == battles'[k].gold_reward - 2
             IN  /\ 10 * g - 14 * L \in -5 .. 5
                 /\ battles'[k].exp_reward = L * 7 + 5]_vars

\* The loser of a stored battle has level 2: 2.8 is rounded up to 3
RewardsFromLoserLevel_Witness ==
    /\ last.op = "calculate_winner" /\ last.error = NoError
    /\ \E k \in 1 .. Len(battles) :
          /\ characters[battles[k].loser].level = 2
          /\ battles[k].gold_reward = 5
          /\ battles[k].exp_reward = 19

RECURSIVE ExpSpent(_, _)
\* The experience the levels from..to-1 cost
ExpSpent(from, to) ==
    IF from >= to THEN 0 ELSE from * from * 40 + ExpSpent(from + 1, to)

\* C6: resolving a battle adds gold_reward to the winner's gold and grants
\* exp_reward to the winner through add_exp (levels gained are paid from
\* the experience, what remains is below the next threshold); the loser
\* and every other character, and all inventories, are left as they were.
WinnerRewarded ==
    [][(last'.op = "calculate_winner" /\ last'.error = NoError)
       => LET row == battles'[Len(battles')]
              w == row.winner
          IN  /\ characters'[w].gold = characters[w].gold + row.gold_reward
              /\ characters'[w].level >= characters[w].level
              /\ characters'[w].current_exp
                   + ExpSpent(characters[w].level, characters'[w].level)
                 = characters[w].current_exp + row.exp_reward
              /\ characters'[w].current_exp
                   < characters'[w].level * characters'[w].level * 40
              /\ characters'[w].equipped = characters[w].equipped
              /\ \A c \in CharIds \ {w} : characters'[c] = characters[c]
              /\ inventory' = inventory]_vars

\* The winner gained a level from the reward
WinnerRewarded_Witness ==
    /\ last.op = "calculate_winner" /\ last.error = NoError
    /\ Len(battles) >= 1
    /\ battles[Len(battles)].winner = 1
    /\ characters[1].level = 2
    /\ characters[1].current_exp = 0

\* C7: the experience reward is computed fresh: whatever exp_reward the
\* Battle object holds before calculate_winner, also after an earlier
\* call on the same object, the stored exp_reward is L * 7 + 5, L the
\* level of the loser.
ExpRewardFresh ==
    [][\A k \in 1 .. MaxBattles :
          (last'.op = "calculate_winner" /\ Written(k))
          => battles'[k].exp_reward
               = characters[battles'[k].loser].level * 7 + 5]_vars

----------------------------------------------------------------------------
(* Transactions *)

Transactional ==
    {"equip_item", "unequip_item", "buy_item", "sell_item",
     "calculate_winner"}

\* C8: equip_item, unequip_item, buy_item, sell_item and calculate_winner
\* are all-or-nothing: when the operation raises, the stored characters,
\* inventories and battles are what they were before the call; and a
\* Battle is stored exactly when its winner's reward is stored.
AllOrNothing ==
    [][/\ (last'.op \in Transactional /\ last'.error # NoError)
          => /\ characters' = characters
             /\ inventory' = inventory
             /\ battles' = battles
       /\ last'.op = "calculate_winner"
          => (battles' # battles <=> characters' # characters)]_vars

\* A sale was refused by the save at the end of the transaction, after the
\* item had been taken out of the inventory
AllOrNothing_Witness ==
    /\ last.op = "sell_item"
    /\ last.error = "Invalid field value."
    /\ last.arg \in inventory[last.char]

----------------------------------------------------------------------------
(* The shop *)

\* The item is in one of the three slots of the character
Wears(c, i) == \E s \in Slots : characters[c].equipped[s] = i

\* h is floor(price / 2)
HalfOf(price, h) == 2 * h <= price /\ price < 2 * h + 2

\* Everything but the gold and the inventory of character c is as it was
OnlyGoldAndInventoryOf(c) ==
    /\ characters' = [characters EXCEPT ![c].gold = characters'[c].gold]
    /\ inventory' = [inventory EXCEPT ![c] = inventory'[c]]

\* C11: buy_item fails with a validation error and leaves gold, inventory
\* and equipment as they were when the item is already equipped, already
\* in the inventory, or costs more than the character's gold; otherwise it
\* adds the item to the inventory and takes exactly the price from gold.
BuyContract ==
    [][\A c \in CharIds, i \in Items :
          (last'.op = "buy_item" /\ last'.char = c /\ last'.arg = i)
          => IF \/ Wears(c, i)
                \/ i \in inventory[c]
                \/ Item(i).price > characters[c].gold
             THEN /\ last'.error \in {"You already have that item.",
                                      "You don't have enough gold."}
                  /\ characters' = characters
                  /\ inventory' = inventory
             ELSE /\ last'.error = NoError
                  /\ inventory'[c] = inventory[c] \cup {i}
                  /\ characters'[c].gold = characters[c].gold - Item(i).price
                  /\ OnlyGoldAndInventoryOf(c)]_vars

\* An item the character could just afford was bought
BuyContract_Witness ==
    /\ last.op = "buy_item" /\ last.error = NoError
    /\ last.arg \in inventory[last.char]
    /\ characters[last.char].gold = 0

\* C12: no character's gold is ever negative, whatever sequence of
\* buy_item, sell_item, equip_item, unequip_item and battle resolutions
\* runs on characters created with gold >= 0.
GoldNeverNegative == \A c \in CharIds : characters[c].gold >= 0

\* A character that spent all its gold in the shop won a battle afterwards
GoldNeverNegative_Witness ==
    /\ last.op = "calculate_winner" /\ last.error = NoError
    /\ inventory[1] # {}
    /\ Len(battles) = 1
    /\ battles[1].winner = 1
    /\ characters[1].gold = battles[1].gold_reward

\* C13: sell_item succeeds only for an item of the inventory: it then
\* takes the item out of the inventory and adds floor(price / 2) to gold;
\* for an item that is not in the inventory, an equipped item included, it
\* fails with a validation error and changes nothing.
SellContract ==
    [][\A c \in CharIds, i \in Items :
          (last'.op = "sell_item" /\ last'.char = c /\ last'.arg = i)
          => /\ last'.error = NoError
                => /\ i \in inventory[c]
                   /\ inventory'[c] = inventory[c] \ {i}
                   /\ HalfOf(Item(i).price,
                             characters'[c].gold - characters[c].gold)
                   /\ OnlyGoldAndInventoryOf(c)
             /\ i \notin inventory[c]
                => /\ last'.error
                        = "You don't have that item in your inventory."
                   /\ characters' = characters
                   /\ inventory' = inventory]_vars

\* The sale of the equipped weapon was refused
SellContract_Witness ==
    /\ last.op = "sell_item"
    /\ last.error = "You don't have that item in your inventory."
    /\ characters[last.char].equipped[Item(last.arg).slot] = last.arg

\* C14: unequip_item succeeds exactly when the item is the one held in the
\* slot of its kind: it then adds the item to the inventory and empties the
\* slot; otherwise it fails with "Item is not equipped." and leaves the
\* inventory, the slots and the gold as they were.
UnequipContract ==
    [][\A c \in CharIds, i \in Items :
          (last'.op = "unequip_item" /\ last'.char = c /\ last'.arg = i)
          => IF characters[c].equipped[Item(i).slot] = i
             THEN /\ last'.error = NoError
                  /\ inventory'[c] = inventory[c] \cup {i}
                  /\ characters'[c].equipped
                       = [characters[c].equipped EXCEPT
                             ![Item(i).slot] = NULL]
                  /\ characters'[c].gold = characters[c].gold
             ELSE /\ last'.error = "Item is not equipped."
                  /\ characters' = characters
                  /\ inventory' = inventory]_vars

\* Another weapon than the equipped one was named
UnequipContract_Witness ==
    /\ last.op = "unequip_item"
    /\ last.error = "Item is not equipped."
    /\ Item(last.arg).slot = "weapon"
    /\ characters[last.char].equipped["weapon"] \notin {NULL, last.arg}

\* C15: for an item the character can afford and does not own, buy_item
\* followed by sell_item of the same item leaves the inventory as it was
\* before the purchase and the gold lower by exactly
\* price - floor(price / 2).
BuySellRoundTrip ==
    [][\A c \in CharIds, i \in Items :
          (/\ last'.op = "buy_then_sell" /\ last'.char = c /\ last'.arg = i
           /\ ~ Wears(c, i)
           /\ i \notin inventory[c]
           /\ Item(i).price <= characters[c].gold)
          => /\ last'.error = NoError
             /\ inventory' = inventory
             /\ \E h \in 0 .. Item(i).price :
                   /\ HalfOf(Item(i).price, h)
                   /\ characters'[c].gold
                        = characters[c].gold - (Item(i).price - h)
             /\ OnlyGoldAndInventoryOf(c)]_vars

\* The armor of price 5 was bought and sold for 2 by a character that owns
\* other items
BuySellRoundTrip_Witness ==
    /\ last.op = "buy_then_sell" /\ last.error = NoError
    /\ last.arg = 3
    /\ inventory[last.char] # {}
    /\ 3 \notin inventory[last.char]

\* C16: for an item that meets equip_item's preconditions, equip_item
\* followed by unequip_item of the same item leaves the item in the
\* inventory, the slot of its kind empty and the gold as it was.
EquipUnequipRoundTrip ==
    [][\A c \in CharIds, i \in Items :
          (/\ last'.op = "equip_then_unequip"
           /\ last'.char = c /\ last'.arg = i
           /\ i \in inventory[c]
           /\ characters[c].profession \in Item(i).allowed_professions
           /\ Item(i).level_required <= characters[c].level)
          => /\ last'.error = NoError
             /\ i \in inventory'[c]
             /\ characters'[c].equipped[Item(i).slot] = NULL
             /\ characters'[c].gold = characters[c].gold]_vars

\* A bought weapon took the place of the default weapon and was taken off
\* again: both are in the inventory
EquipUnequipRoundTrip_Witness ==
    /\ last.op = "equip_then_unequip" /\ last.error = NoError
    /\ last.arg = 2
    /\ {DefaultWeapon, 2} \subseteq inventory[last.char]
    /\ characters[last.char].equipped["weapon"] = NULL

----------------------------------------------------------------------------
(* Experience *)

\* C17: for every level >= 1, current_exp >= 0 and amount >= 0, add_exp
\* ends with current_exp' < 40 * level'^2 and level' >= level, and conserves
\* experience: current_exp + amount = current_exp' + the sum of 40 * k^2
\* for k from level to level' - 1; several levels may be gained in one
\* call (level 1 with no experience gaining 15450 ends at level 11).
AddExpContract ==
    [][\A c \in CharIds :
          (last'.op = "add_exp" /\ last'.char = c /\ last'.error = NoError)
          => /\ characters'[c].level >= characters[c].level
             /\ characters'[c].current_exp >= 0
             /\ characters'[c].current_exp
                  < 40 * characters'[c].level * characters'[c].level
             /\ characters[c].current_exp + last'.arg
                  = characters'[c].current_exp
                    + ExpSpent(characters[c].level, characters'[c].level)
       ]_vars

\* Ten levels were gained in one call: 15450 = 40 * (1 + 4 + ... + 100) + 50
AddExpContract_Witness ==
    /\ last.op = "add_exp" /\ last.error = NoError
    /\ last.arg = 15450
    /\ characters[last.char].level = 11
    /\ characters[last.char].current_exp = 50

----------------------------------------------------------------------------
(* Battles: validation *)

\* What a step may not change about the characters: gold, level, experience
Progress(c) ==
    <<characters[c].gold, characters[c].level, characters[c].current_exp>>

\* C19: a new battle whose attacker and defender are the same character
\* always fails, saved directly or resolved by calculate_winner: no Battle
\* is stored and the character's gold, level and experience stay.
SelfBattleFails ==
    [][(/\ last'.op \in {"save", "calculate_winner"}
        /\ last'.char # NULL
        /\ last'.char = last'.arg)
       => /\ last'.error # NoError
          /\ battles' = battles
          /\ \A c \in CharIds : Progress(c)' = Progress(c)]_vars

\* calculate_winner on a battle of a character against itself was undone
\* when the battle failed its validation
SelfBattleFails_Witness ==
    /\ last.op = "calculate_winner"
    /\ last.char = last.arg /\ last.char \in CharIds
    /\ last.error = "You can't battle yourself."

\* C20: calculate_winner on a battle that lacks its attacker or its
\* defender fails with the "need 2 participants" validation error, stores
\* no Battle and changes no character's gold, level or experience.
TwoParticipantsNeeded ==
    [][(/\ last'.op = "calculate_winner"
        /\ last'.char = NULL \/ last'.arg = NULL)
       => /\ last'.error = "You need 2 participants."
          /\ battles' = battles
          /\ \A c \in CharIds : Progress(c)' = Progress(c)]_vars

\* A battle without a defender was refused after another was stored
TwoParticipantsNeeded_Witness ==
    /\ last.op = "calculate_winner"
    /\ last.char \in CharIds /\ last.arg = NULL
    /\ last.error = "You need 2 participants."
    /\ Len(battles) = 1

\* C21: saving a new Battle whose winner is not its attacker or its
\* defender, or whose loser is not its attacker or its defender, is
\* rejected with a validation error and stores no record, the battle being
\* saved directly and not through the matchmaking views.
OutcomeFromParticipants ==
    [][\A a \in SavedPairs, d \in SavedPairs,
          w \in CharIds \cup {NULL}, l \in CharIds \cup {NULL} :
          (/\ last'.op = "save" /\ last'.char = a /\ last'.arg = d
           /\ w \notin {a, d} \/ l \notin {a, d}
           /\ SaveBattle(a, d, w, l))
          => /\ last'.error # NoError
             /\ battles' = battles
             /\ characters' = characters]_vars

\* A battle of two distinct characters was refused for its winner or loser
\* after a battle of the same two had been stored
OutcomeFromParticipants_Witness ==
    /\ last.op = "save"
    /\ last.char \in CharIds /\ last.arg \in CharIds \ {last.char}
    /\ last.error = "Winner/loser must be either attacker or defender."
    /\ Len(battles) = 1
    /\ battles[1].attacker = last.char /\ battles[1].defender = last.arg

\* The step saves a new Battle(attacker=a, defender=d, winner=w, loser=l)
\* directly
Saves(a, d, w, l) ==
    /\ last'.op = "save" /\ last'.char = a /\ last'.arg = d
    /\ SaveBattle(a, d, w, l)

\* The step is refused and stores nothing
NothingSaved ==
    /\ last'.error # NoError
    /\ battles' = battles
    /\ characters' = characters

\* C38 as claimed: a new Battle saved directly with a missing attacker or
\* defender, or with the same character as winner and loser, is rejected
\* and creates no record.
DegenerateBattleRejected ==
    [][\A a \in SavedPairs, d \in SavedPairs,
          w \in CharIds \cup {NULL}, l \in CharIds \cup {NULL} :
          (/\ a = NULL \/ d = NULL \/ (w = l /\ w # NULL)
           /\ Saves(a, d, w, l))
          => NothingSaved]_vars

\* C38: a new Battle saved directly with a missing attacker or defender is
\* rejected and creates no record; one with the same character as winner
\* and loser is rejected when attacker and defender are the same or that
\* character is neither of them, and is stored as submitted otherwise.
TwoParticipantsToSave ==
    [][last'.op = "save"
       => /\ (last'.char = NULL \/ last'.arg = NULL) => NothingSaved
          /\ \A a \in {last'.char} \ {NULL}, d \in {last'.arg} \ {NULL},
                w \in CharIds :
                Saves(a, d, w, w)
                => IF a = d \/ w \notin {a, d}
                   THEN NothingSaved
                   ELSE /\ last'.error = NoError
                        /\ battles' = Append(battles,
                                             [attacker |-> a, defender |-> d,
                                              winner |-> w, loser |-> w,
                                              gold_reward |-> 0,
                                              exp_reward |-> 0])]_vars

\* A battle without its attacker was refused after a battle of two
\* characters with the same winner and loser had been stored
TwoParticipantsToSave_Witness ==
    /\ last.op = "save" /\ last.char = NULL /\ last.arg \in CharIds
    /\ last.error = "This field cannot be blank."
    /\ Len(battles) = 1
    /\ battles[1].attacker # battles[1].defender
    /\ battles[1].winner = battles[1].loser

----------------------------------------------------------------------------
(* Matchmaking *)

\* The step is a battle-create GET of player p for its character c that
\* was served
Matched(p, c) ==
    /\ last'.op = "find_opponents" /\ last'.char = c
    /\ last'.error = NoError
    /\ characters[c].owner = p

\* The list the step returned and remembered for character c
Returned(p, c) == session'[p].opponents_for[c][1]

\* Character o belongs to another player than p and its level is within 25
\* of the level of c
InWindow(p, c, o) ==
    /\ characters[o].owner # p
    /\ characters[o].level - characters[c].level \in -25 .. 25

\* C22: every opponent findOpponents returns for character A belongs to
\* another player than A's owner and has a level within 25 of A's level; A
\* and the other characters of A's owner never appear; when there is no
\* such character the result, which is the remembered list, is empty.
OpponentsInWindow ==
    [][\A p \in Players, c \in CharIds :
          Matched(p, c)
          => /\ session'[p].opponents_for[c] # Absent
             /\ \A k \in 1 .. Len(Returned(p, c)) :
                   /\ Returned(p, c)[k] \in DOMAIN characters
                   /\ Returned(p, c)[k] # c
                   /\ InWindow(p, c, Returned(p, c)[k])
             /\ (\A o \in DOMAIN characters : ~ InWindow(p, c, o))
                   => Returned(p, c) = <<>>]_vars

\* Of four characters of the other player, the two whose level is 25 away
\* were returned and the two whose level is 26 away were not
OpponentsInWindow_Witness ==
    /\ last.op = "find_opponents" /\ last.char = 1 /\ last.error = NoError
    /\ characters[1].level = 30 /\ characters[2].level = 30
    /\ DOMAIN characters = 1 .. 6
    /\ characters[5].level = 4 /\ characters[6].level = 56
    /\ session["p1"].opponents_for[1] = Present(<<3, 4>>)

\* The characters findOpponents may return for character c of player p
Window(p, c) == {o \in DOMAIN characters : InWindow(p, c, o)}

\* How far the level of o is from the level of c
Distance(c, o) ==
    IF characters[o].level >= characters[c].level
    THEN characters[o].level - characters[c].level
    ELSE characters[c].level - characters[o].level

\* The characters of a list
Members(list) == {list[k] : k \in 1 .. Len(list)}

\* The largest distance of a member of the list (0 for the empty list)
Farthest(c, list) ==
    IF list = <<>> THEN 0
    ELSE CHOOSE d \in {Distance(c, o) : o \in Members(list)} :
            \A o \in Members(list) : Distance(c, o) <= d

\* C23: with fewer than 3 characters in the level window findOpponents
\* returns all of them; with more it returns the level-difference buckets
\* in ascending difference until it holds at least 3: every bucket nearer
\* than the farthest one returned is returned whole, the farthest one was
\* needed to reach 3, and it is returned whole too (so the result may
\* exceed 3) unless the result is the candidate pool of 10.
WholeBuckets ==
    [][\A p \in Players, c \in CharIds :
          Matched(p, c)
          => LET R == Returned(p, c)
                 W == Window(p, c)
                 D == Farthest(c, R)
             IN  /\ Members(R) \subseteq W
                 /\ Cardinality(Members(R)) = Len(R)
                 /\ Cardinality(W) < 3 => Members(R) = W
                 /\ Cardinality(W) >= 3 => Len(R) >= 3
                 /\ \A o \in W : Distance(c, o) < D => o \in Members(R)
                 /\ Cardinality({o \in Members(R) : Distance(c, o) < D}) < 3
                 /\ Len(R) < PoolCap
                      => \A o \in W : Distance(c, o) = D => o \in Members(R)
      ]_vars

\* One character at the initiator's level and three one level away were
\* returned, four in all, and the character two levels away was not
WholeBuckets_Witness ==
    /\ last.op = "find_opponents" /\ last.char = 1 /\ last.error = NoError
    /\ DOMAIN characters = 1 .. 7
    /\ characters[1].level = 30 /\ characters[7].level = 28
    /\ Members(session["p1"].opponents_for[1][1]) = {3, 4, 5, 6}

\* Character a is nearer to c than b is, or as near and of a lower level
Nearer(c, a, b) ==
    \/ Distance(c, a) < Distance(c, b)
    \/ /\ Distance(c, a) = Distance(c, b)
       /\ characters[a].level < characters[b].level

\* C24: findOpponents returns at most 10 opponents, in ascending order of
\* the absolute level difference to the initiator and then of the level,
\* and the result is a prefix of that ranking of all the characters of the
\* window: no character left out ranks before a returned one.  (The
\* expansion loop ends for every pool: each served request has a result.)
RankedPrefix ==
    [][\A p \in Players, c \in CharIds :
          Matched(p, c)
          => LET R == Returned(p, c)
             IN  /\ Len(R) <= 10
                 /\ \A j \in 1 .. Len(R), k \in 1 .. Len(R) :
                       j < k => ~ Nearer(c, R[k], R[j])
                 /\ Members(R) \subseteq Window(p, c)
                 /\ \A o \in Window(p, c) \ Members(R), k \in 1 .. Len(R) :
                       ~ Nearer(c, o, R[k])]_vars

\* Twelve characters are in the window, two of them nearer than the nine
\* that are two levels away: the pool of ten was returned
RankedPrefix_Witness ==
    /\ last.op = "find_opponents" /\ last.char = 1 /\ last.error = NoError
    /\ Cardinality(Window("p1", 1)) = 12
    /\ Len(session["p1"].opponents_for[1][1]) = 10
    /\ session["p1"].opponents_for[1][1][1] = 3
    /\ session["p1"].opponents_for[1][1][2] = 4

\* C25: a fresh findOpponents call for character A supersedes the list
\* remembered for A.  When a served battle-create GET is followed by the
\* POST, the list remembered afterwards is the one the GET returned; the
\* POST is refused for a defender outside the level window as it is at
\* the GET, a defender of the earlier list included, and changes nothing
\* then; a defender in the window is not refused for the list (with
\* fewer than 3 characters in the window the later list is the window).
FreshListSupersedes ==
    [][\A p \in Players, c \in CharIds :
          (/\ last'.op = "find_then_create" /\ last'.char = c
           /\ last'.error # NotOwner
           /\ characters[c].owner = p
           /\ session[p].battle_create_allowed)
          => LET d == last'.arg.defender
                 refused ==
                     last'.error = "Opponent must be from a provided list."
             IN  /\ d \in DOMAIN characters
                      => (refused <=> d \notin Window(p, c))
                 /\ last'.error = NoError => d \in Window(p, c)
                 /\ refused
                      => /\ battles' = battles
                         /\ characters' = characters
                         /\ session'[p].opponents_for[c] # Absent
                         /\ Members(Returned(p, c)) = Window(p, c)]_vars

\* The second character was in the list remembered for the first one; the
\* first one gained a level, the next GET returned the third character
\* alone, and the POST that named the second character was refused
FreshListSupersedes_Witness ==
    /\ last.op = "find_then_create"
    /\ last.error = "Opponent must be from a provided list."
    /\ last.char = 1
    /\ last.arg.defender = 2
    /\ InList(2, last.arg.earlier)
    /\ session["p1"].opponents_for[1] = Present(<<3>>)

\* C26: a battle-create GET is served only when the session holds the
\* battle_create_allowed flag, which only a join_battle of the owner of a
\* character sets; the GET consumes the flag, so a further GET without a
\* new join_battle is refused with "Join the battle from Character page."
\* and leaves the sessions, the remembered lists among them, as they were.
FromCharacterPageOnly ==
    [][/\ \A p \in Players, c \in CharIds :
             (/\ last'.op = "find_opponents" /\ last'.char = c
              /\ FindOpponents(p, c))
             => /\ last'.error = NoError
                   => /\ session[p].battle_create_allowed
                      /\ characters[c].owner = p
                /\ ~ session'[p].battle_create_allowed
                /\ ~ session[p].battle_create_allowed
                   => /\ last'.error
                           = "Join the battle from Character page."
                      /\ session' = session
       /\ \A p \in Players :
             (/\ ~ session[p].battle_create_allowed
              /\ session'[p].battle_create_allowed)
             => /\ last'.op = "join_battle" /\ last'.error = NoError
                /\ characters[last'.char].owner = p]_vars

\* A GET was served and remembered a list, and the next GET of the same
\* player was refused
FromCharacterPageOnly_Witness ==
    /\ last.op = "find_opponents" /\ last.char = 1
    /\ last.error = "Join the battle from Character page."
    /\ session["p1"].opponents_for[1] = Present(<<3>>)
    /\ ~ session["p1"].battle_create_allowed
    /\ ~ session["p2"].battle_create_allowed
    /\ session["p2"].opponents_for = [c \in CharIds |-> Absent]

----------------------------------------------------------------------------
(* The roster *)

\* The characters player p owns
Owned(p) == {c \in DOMAIN characters : characters[c].owner = p}

QuotaRespected ==
    \A p \in Players : Cardinality(Owned(p)) <= Player(p).max_characters

\* C27: after any sequence of character creations and deletions, handled
\* one at a time, no player owns more characters than its max_characters;
\* a creation attempted by a player that owns max_characters characters
\* fails and leaves the characters as they were.
QuotaKept ==
    /\ []QuotaRespected
    /\ [][\A p \in Players :
             (/\ last'.op = "create_character"
              /\ Cardinality(Owned(p)) >= Player(p).max_characters
              /\ CreateCharacter(p, last'.arg))
             => /\ last'.error # NoError
                /\ characters' = characters
                /\ inventory' = inventory]_vars

\* The first player deleted a character, created another and owns three
\* again: its next creation was refused
QuotaKept_Witness ==
    /\ last.op = "create_character"
    /\ last.error = "You cannot have more than max_characters characters."
    /\ Cardinality(Owned("p1")) = 3
    /\ 1 \notin DOMAIN characters
    /\ \E c \in Owned("p1") : c > 3

AllowedProfessions ==
    \A c \in DOMAIN characters :
        characters[c].profession
            \in Race(characters[c].race).allowed_professions

\* C28: creating a character whose profession is not among the allowed
\* professions of its race fails with a validation error and stores no
\* character; every character that exists has a profession its race
\* allows.
ProfessionOfRace ==
    /\ []AllowedProfessions
    /\ [][(/\ last'.op = "create_character"
           /\ last'.arg.race # Blank /\ last'.arg.profession # Blank
           /\ last'.arg.profession
                \notin Race(last'.arg.race).allowed_professions)
          => /\ last'.error # NoError
             /\ characters' = characters
             /\ inventory' = inventory]_vars

\* An elf warrior with a valid, unused name was refused to a player that
\* may have one more character, after an elf mage had been created
ProfessionOfRace_Witness ==
    /\ last.op = "create_character"
    /\ last.error = "This profession is not allowed for this race."
    /\ last.arg.race = "elf" /\ last.arg.profession = "warrior"
    /\ \A p \in Players : Cardinality(Owned(p)) < Player(p).max_characters
    /\ \E c \in DOMAIN characters :
          /\ c > 3
          /\ characters[c].race = "elf" /\ characters[c].profession = "mage"

----------------------------------------------------------------------------
(* Ownership *)

\* The step refuses the request and leaves the characters (their gold,
\* equipment and existence), the inventories and the battles as they were
Refused ==
    /\ last'.error # NoError
    /\ characters' = characters
    /\ inventory' = inventory
    /\ battles' = battles

\* C29: equip, unequip, buy, sell, delete, findOpponents and createBattle
\* requests of a player that does not own the character they name are all
\* rejected; they leave the character's gold, inventory, equipment and
\* existence as they were and store no Battle.
StrangerRefused ==
    [][\A p \in Players, c \in DOMAIN characters :
          p # characters[c].owner
          => /\ \A i \in Items :
                   /\ (/\ last'.op = "equip_item" /\ last'.char = c
                       /\ EquipItem(p, c, i)) => Refused
                   /\ (/\ last'.op = "unequip_item" /\ last'.char = c
                       /\ UnequipItem(p, c, i)) => Refused
                   /\ (/\ last'.op = "buy_item" /\ last'.char = c
                       /\ BuyItem(p, c, i)) => Refused
                   /\ (/\ last'.op = "sell_item" /\ last'.char = c
                       /\ SellItem(p, c, i)) => Refused
             /\ (/\ last'.op = "delete_character" /\ last'.char = c
                 /\ DeleteCharacter(p, c)) => Refused
             /\ (/\ last'.op = "find_opponents" /\ last'.char = c
                 /\ FindOpponents(p, c))
                => Refused /\ session'[p].opponents_for = session[p].opponents_for
             /\ \A d \in CharIds \cup {NULL} :
                   (/\ last'.op = "create_battle" /\ last'.char = c
                    /\ CreateBattle(p, c, d)) => Refused]_vars

\* The other player tried to delete a character that has fought a battle
\* and has an item in its inventory: the character is still there
StrangerRefused_Witness ==
    /\ last.op = "delete_character" /\ last.char = 1
    /\ last.error = NotOwner
    /\ 1 \in DOMAIN characters
    /\ inventory[1] # {}
    /\ Len(battles) = 1

----------------------------------------------------------------------------
(* Server-derived fields *)

\* The battle stored by the step
NewRow == battles'[Len(battles')]

\* The stored battle has the attacker given, the winner and the loser are
\* its two participants, and the rewards are those of the level the loser
\* had
Resolved(attacker) ==
    /\ NewRow.attacker = attacker
    /\ {NewRow.winner, NewRow.loser} = {NewRow.attacker, NewRow.defender}
    /\ NewRow.winner # NewRow.loser
    /\ NewRow.gold_reward
         = round_level_reward(characters[NewRow.loser].level) + 2
    /\ NewRow.exp_reward = characters[NewRow.loser].level * 7 + 5

\* The character the form creates for player p from the three fields of
\* the form
Created(p, data) ==
    Character_save_adding([name |-> data.name, race |-> data.race,
                           profession |-> data.profession, owner |-> p],
                          DB)

\* C30: what a createBattle request submits for attacker, winner, loser,
\* gold_reward and exp_reward, and what a createCharacter request submits
\* for owner, has no effect: the step is the step of the request without
\* these values (with the same coin flip); the attacker of a stored battle
\* is the character of the request path, its winner, loser and rewards are
\* those of the resolver, and the owner of a new character is the player
\* that sent the request.
ServerDerived ==
    [][/\ \A p \in Players, c \in DOMAIN characters, data \in FormBattles :
             (/\ last'.op = "create_battle" /\ last'.char = c
              /\ PostBattle(p, c, data))
             => /\ CreateBattle(p, c, data.defender)
                /\ battles' # battles
                     => /\ Len(battles') = Len(battles) + 1
                        /\ Resolved(c)
                        /\ NewRow.defender = data.defender
       /\ \A p \in Players, data \in FormCharacters :
             (/\ last'.op = "create_character" /\ last'.arg = data
              /\ CreateCharacter(p, data))
             => /\ last'.error = Created(p, data).error
                /\ characters' = Created(p, data).db.characters
                /\ inventory' = Created(p, data).db.inventory
                /\ battles' = battles
                /\ last'.error = NoError
                     => /\ last'.char \notin DOMAIN characters
                        /\ characters'[last'.char].owner = p]_vars

\* The first player created a character with a request that names the
\* second player as the owner, after a battle was stored: the character
\* is the first player's
ServerDerived_Witness ==
    /\ last.op = "create_character" /\ last.error = NoError
    /\ last.arg.owner = "p2"
    /\ characters[last.char].owner = "p1"
    /\ Len(battles) > 0

----------------------------------------------------------------------------
(* Deletion *)

\* What is left of a reference to a character once character c is deleted
AfterDelete(ref, c) == IF ref = c THEN NULL ELSE ref

\* C31: deleting a character removes it and keeps every Battle: each stays
\* stored with its references to the deleted character (attacker,
\* defender, winner, loser) set to null, and its gold_reward, exp_reward
\* and references to other characters as they were.
BattlesOutliveCharacter ==
    [][\A p \in Players, c \in DOMAIN characters :
          (/\ last'.op = "delete_character" /\ last'.char = c
           /\ last'.error = NoError
           /\ DeleteCharacter(p, c))
          => /\ c \notin DOMAIN characters'
             /\ \A o \in DOMAIN characters \ {c} :
                   o \in DOMAIN characters' /\ characters'[o] = characters[o]
             /\ Len(battles') = Len(battles)
             /\ \A k \in 1 .. Len(battles) :
                   /\ \A f \in BattleFields :
                         battles'[k][f] = AfterDelete(battles[k][f], c)
                   /\ battles'[k].gold_reward = battles[k].gold_reward
                   /\ battles'[k].exp_reward = battles[k].exp_reward]_vars

\* The attacker of the stored battle was deleted: the battle is still
\* there, with its defender and its rewards
BattlesOutliveCharacter_Witness ==
    /\ last.op = "delete_character" /\ last.error = NoError
    /\ last.char \notin DOMAIN characters
    /\ Len(battles) = 1
    /\ battles[1].attacker = NULL /\ battles[1].defender = 3
    /\ NULL \in {battles[1].winner, battles[1].loser}
    /\ battles[1].gold_reward > 0

----------------------------------------------------------------------------
(* Slots *)

\* C32: in every state reached through equip_item and unequip_item (and
\* the shop), each of the slots weapon, armor and accessory of a character
\* is empty or holds one item, and the slot attribute of that item is the
\* slot.
SlotsHoldTheirKind ==
    \A c \in DOMAIN characters, s \in Slots :
       \/ characters[c].equipped[s] = NULL
       \/ /\ characters[c].equipped[s] \in Items
          /\ Item(characters[c].equipped[s]).slot = s

\* The armor was equipped next to a weapon that replaced the default
\* weapon
SlotsHoldTheirKind_Witness ==
    /\ last.op = "equip_item" /\ last.error = NoError /\ last.arg = 3
    /\ characters[1].equipped["armor"] = 3
    /\ characters[1].equipped["weapon"] = 2
    /\ characters[1].equipped["accessory"] = NULL

----------------------------------------------------------------------------
(* Trading *)

\* The items in the three slots of a character
Worn(cs, c) == {cs[c].equipped[s] : s \in Slots} \ {NULL}

\* The items a character owns: its inventory and the items in its slots
OwnedItems(cs, inv, c) == inv[c] \cup Worn(cs, c)

RECURSIVE ResaleValue(_)
\* The sum of floor(price / 2) over a set of items
ResaleValue(set) ==
    IF set = {} THEN 0
    ELSE LET i == CHOOSE x \in set : TRUE
         IN  Item(i).price \div 2 + ResaleValue(set \ {i})

\* gold + the sum of floor(price / 2) over the items the character owns
Wealth(cs, inv, c) == cs[c].gold + ResaleValue(OwnedItems(cs, inv, c))

\* C39: over any sequence of buy_item, sell_item, equip_item and
\* unequip_item calls executed one at a time, gold + the sum of
\* floor(price / 2) over the owned items never increases: a buy lowers it
\* by price - floor(price / 2), and a sell, an equip, an unequip and every
\* refused call leave it as it was.
TradingCreatesNoWealth ==
    [][\A c \in CharIds :
          LET before == Wealth(characters, inventory, c)
              after == Wealth(characters', inventory', c)
          IN  IF /\ last'.op = "buy_item" /\ last'.char = c
                 /\ last'.error = NoError
              THEN after = before - (Item(last'.arg).price
                                     - Item(last'.arg).price \div 2)
              ELSE after = before]_vars

\* The default weapon was sold after a bought weapon had replaced it
TradingCreatesNoWealth_Witness ==
    /\ last.op = "sell_item" /\ last.error = NoError
    /\ last.arg = DefaultWeapon
    /\ characters[1].equipped["weapon"] = 2
    /\ inventory[1] = {}

\* gold, level and experience of character c, and the items it owns, are
\* as they were
OnlyMoved(c) ==
    /\ characters'[c].gold = characters[c].gold
    /\ characters'[c].level = characters[c].level
    /\ characters'[c].current_exp = characters[c].current_exp
    /\ OwnedItems(characters', inventory', c)
         = OwnedItems(characters, inventory, c)

\* the slots, level and experience of character c are as they were
SlotsKept(c) ==
    /\ characters'[c].equipped = characters[c].equipped
    /\ characters'[c].level = characters[c].level
    /\ characters'[c].current_exp = characters[c].current_exp

\* C40: equip_item and unequip_item leave the gold, the level and the
\* experience of the character and the set of items it owns (inventory
\* and slots together) as they were; buy_item and sell_item leave the
\* three slots, the level and the experience as they were.
MovesAndTradesFramed ==
    [][\A c \in CharIds :
          /\ (last'.op \in {"equip_item", "unequip_item"}
              /\ last'.char = c) => OnlyMoved(c)
          /\ (last'.op \in {"buy_item", "sell_item"}
              /\ last'.char = c) => SlotsKept(c)]_vars

\* An armor was bought by a character that wears none, after its weapon
\* was taken off
MovesAndTradesFramed_Witness ==
    /\ last.op = "buy_item" /\ last.error = NoError /\ last.arg = 3
    /\ characters[1].equipped["armor"] = NULL
    /\ characters[1].equipped["weapon"] = NULL
    /\ inventory[1] = {DefaultWeapon, 3}

----------------------------------------------------------------------------
(* Requests in flight together *)

\* The step is a pair of requests on character c
Paired(c) == last'.op = "two_requests" /\ last'.char = c

\* The request was served
Served(k) == last'.arg.errors[k] = NoError

RECURSIVE PriceOf(_)
\* The sum of the prices of a set of items
PriceOf(set) ==
    IF set = {} THEN 0
    ELSE LET i == CHOOSE x \in set : TRUE
         IN  Item(i).price + PriceOf(set \ {i})

\* C33: for any interleaving of two buy_item requests for different items
\* on the same character, the gold stored in the end is the gold at the
\* start less the prices of the items that were added to the inventory.
GoldConservedByTwoBuys ==
    [][\A c \in CharIds :
          (/\ Paired(c)
           /\ last'.arg.first.op = "buy_item"
           /\ last'.arg.second.op = "buy_item"
           /\ last'.arg.first.item # last'.arg.second.item)
          => characters'[c].gold
               = characters[c].gold
                 - PriceOf(inventory'[c] \ inventory[c])]_vars

\* C35: for any two requests among equip_item, unequip_item, buy_item and
\* sell_item on the same character, each working on a copy loaded before
\* the other committed, the state stored in the end has no item both in
\* a slot and in the inventory, and no item that was sold is still
\* equipped or in the inventory.
ExclusiveUnderInterleaving ==
    [][\A c \in CharIds :
          Paired(c)
          => /\ Worn(characters', c) \cap inventory'[c] = {}
             /\ \A k \in {1, 2} :
                   LET req == IF k = 1 THEN last'.arg.first
                              ELSE last'.arg.second
                   IN  (req.op = "sell_item" /\ Served(k))
                       => req.item \notin OwnedItems(characters',
                                                     inventory', c)]_vars

\* gold, level and experience of character c as stored in db
ProgressIn(db, c) ==
    <<db.characters[c].gold, db.characters[c].level,
      db.characters[c].current_exp>>

\* What the battle of the step stores when it runs alone on db
BattleAlone(db, k) ==
    calculate_winner(NewBattle(last'.arg.attacker, last'.arg.defender),
                     db.characters,
                     IF last'.op = "two_battles"
                     THEN last'.arg.winner_index[k]
                     ELSE last'.arg.winner_index,
                     db)

\* What the request of the step stores when it runs alone on db
RequestAlone(db) ==
    Call(last'.arg.request.op, last'.char,
         db.characters[last'.char], last'.arg.request.item, db)

\* C34: when a battle won by character D is resolved while D's owner
\* performs buy_item, sell_item, equip_item or unequip_item on D, or
\* while a second battle won by D is resolved, the gold, level and
\* experience of D stored in the end are those of the two operations
\* executed in one of the two serial orders.
RewardSurvivesOverlap ==
    [][/\ last'.op = "battle_and_request"
          => ProgressIn(DB', last'.char)
               \in {ProgressIn(RequestAlone(BattleAlone(DB, 1).db).db,
                               last'.char),
                    ProgressIn(BattleAlone(RequestAlone(DB).db, 1).db,
                               last'.char)}
       /\ (/\ last'.op = "two_battles"
           /\ last'.arg.winner_index[1] = last'.arg.winner_index[2])
          => LET D == IF last'.arg.winner_index[1] = 0
                      THEN last'.arg.attacker ELSE last'.arg.defender
             IN  ProgressIn(DB', D)
                   = ProgressIn(BattleAlone(BattleAlone(DB, 1).db, 2).db,
                                D)]_vars

\* C36: when two createBattle requests for the same attacker and the same
\* session are processed together after a single findOpponents call, at
\* most one Battle record is created and at most one reward is applied
\* (at most one character is changed).
OneListOneBattle ==
    [][last'.op = "double_post"
       => /\ Len(battles') <= Len(battles) + 1
          /\ Cardinality({k \in DOMAIN characters :
                            characters'[k] # characters[k]}) <= 1]_vars

\* C37: when two character-creation requests of a player who owns
\* max_characters - 1 characters are processed together, at most one
\* succeeds and the player owns no more than max_characters characters
\* afterwards.
QuotaUnderConcurrency ==
    [][\A p \in Players :
          (/\ last'.op = "two_creations"
           /\ last'.arg.owner = p
           /\ Cardinality(Owned(p)) = Player(p).max_characters - 1)
          => /\ \E k \in 1 .. 2 : last'.arg.errors[k] # NoError
             /\ Cardinality(Owned(p)') <= Player(p).max_characters]_vars

----------------------------------------------------------------------------
(* Stats *)

\* v is x hundredths rounded to an integer, a tie going to the even one
RoundsTo(x, v) ==
    /\ 100 * v - x \in -50 .. 50
    /\ 100 * v - x \in {-50, 50} => v % 2 = 0

\* The bonus the item in slot s of character c gives to a stat
Bonus(c, s, field) ==
    IF characters[c].equipped[s] = NULL THEN 0
    ELSE Item(characters[c].equipped[s])[field]

\* Ten times base + level * k + the bonuses of the three slots, k10 = 10 k
BaseStat(c, base, k10, field) ==
    10 * base + k10 * characters[c].level
      + 10 * (Bonus(c, "weapon", field) + Bonus(c, "armor", field)
              + Bonus(c, "accessory", field))

\* C18: after every successful persist of a character (creation, equip,
\* unequip, buy, sell, a battle won with or without a level gained) the
\* stored damage, protection and health are the round-half-to-even of
\* (profession base + level * k + the bonuses of the items in the three
\* slots) * race modifier, k = 0.5, 0.2 and 5, for the stored level and
\* the stored equipment.
StatsConsistent ==
    \A c \in CharIds :
        LET P == Profession(characters[c].profession)
            R == Race(characters[c].race)
        IN  /\ RoundsTo(BaseStat(c, P.damage_base, 5, "bonus_damage")
                          * R.damage_modifier, characters[c].damage)
            /\ RoundsTo(BaseStat(c, P.protection_base, 2, "bonus_protection")
                          * R.protection_modifier, characters[c].protection)
            /\ RoundsTo(BaseStat(c, P.health_base, 50, "bonus_health")
                          * R.health_modifier, characters[c].health)

\* The shopper gained a level in a battle while it wore the bought weapon:
\* (3 + 2 * 0.5 + 5) * 1 = 9
StatsConsistent_Witness ==
    /\ last.op = "calculate_winner" /\ last.error = NoError
    /\ characters[1].level = 2
    /\ characters[1].equipped["weapon"] = 2
    /\ characters[1].damage = 9

====
